---- MODULE Spec2Model ----
(***************************************************************************)
(* Work-stealing scheduler of rayon (src/thread_pool.rs): the Registry     *)
(* with its state mutex and condition variable, the per-worker intrusive   *)
(* deques (push / pop / steal_work_from), the worker main_loop, and the    *)
(* fork-join primitive `join` (spec section 4.5; its source file api.rs is *)
(* not part of the tree, nor are job.rs and latch.rs).                     *)
(*                                                                         *)
(* Every Mutex critical section is two steps: one that takes the lock and  *)
(* one that runs the body and drops the guard, so that the lock holders    *)
(* are visible in the state.  User closures are abstract: a closure may    *)
(* call join any number of times (while job ids remain) and then           *)
(* terminates, with a value or with a failure.  A failure is caught at the *)
(* task boundary (spec section 7) and leaves the scheduler state exactly   *)
(* as a value does; for the closure of an executed job the outcome is kept *)
(* in the history of the job.                                              *)
(***************************************************************************)
EXTENDS Integers, Sequences, FiniteSets, TLC

\* Bounds of the model.
NumWorkers == 2      \* num_threads handed to Registry::new
NumExternal == 1     \* threads that are not pool workers
MaxJobs == 3         \* number of join calls in one run
MaxJobsFair == 2     \* the same, in the runs checked for liveness
NumCallers == 2      \* threads that construct or fetch a registry
MaxLen == 4          \* length of the slice under a parallel iterator
MaxAdapters == 2     \* adapters (map, enumerate) stacked on the slice
MaxCost == 9         \* cost estimate handed to bridge
MaxLeaves == 3       \* producers a run of split_at calls ends with
MaxSize == 3         \* chunk_size of par_chunks, window_size of par_windows
MaxThreads == 4      \* num_threads of the pools steal_work is called on

NULL_JOB == 0
NoThread == -1
NULL_WORKER == -1    \* WORKER_THREAD_STATE of a thread that is no worker

Workers == 0 .. (NumWorkers - 1)
Externals == NumWorkers .. (NumWorkers + NumExternal - 1)
Threads == Workers \cup Externals
Jobs == 1 .. MaxJobs
Callers == 1 .. NumCallers

VARIABLES
  threads_at_work,   \* RegistryState.threads_at_work
  injected_jobs,     \* RegistryState.injected_jobs (Vec<*mut Job>)
  state_lock,        \* holder of Registry.state (Mutex), or NoThread
  work_available,    \* threads blocked in Condvar::wait on work_available
  primed,            \* ThreadInfo.primed latch of each worker
  worker_thread_state, \* thread-local WORKER_THREAD_STATE of each thread
  deque,             \* ThreadInfo.deque: [top, bottom] of each worker
  deque_lock,        \* holder of each ThreadInfo.deque Mutex, or NoThread
  previous,          \* Job.previous of each job
  next,              \* Job.next of each job
  latch,             \* the completion latch of each job
  stack,             \* call stack of each thread (sequence of frames)
  nextJob,           \* next job id a join allocates
  max_joins,         \* number of join calls the user closures make in all
  hist,              \* history of each job (who pushed, stole, ran it)
  once,              \* THE_REGISTRY_SET (Once): "new", "running" or "done"
  the_registry,      \* THE_REGISTRY: NoRegistry (None) or a registry
  spawned,           \* indices handed to thread::spawn by Registry::new
  registries,        \* number of runs of Registry::new
  caller,            \* what each constructing thread calls and where it is
  root,              \* the producer a parallel iterator starts from
  leaves,            \* the producers split_at has made of it, left to right
  last_split,        \* the last call of split_at and its result
  zipped,            \* the last call of zip_eq and its result
  cost,              \* the cost estimate of the call of bridge
  tasks,             \* the calls of bridge, by their place in the recursion
  op_calls,          \* the items the op of for_each was invoked on, in order
  filter_op,         \* the items the predicate of a filter holds for
  consumer,          \* the consumer a pipeline is driven into
  vec,               \* the Vec handed to collect_into
  thief              \* a call of steal_work: its pool, caller, start, attempts

registry == <<threads_at_work, injected_jobs, state_lock, work_available>>
deques == <<deque, deque_lock, previous, next>>
thread_state == <<primed, worker_thread_state>>
construction == <<once, the_registry, spawned, registries, caller>>
sinks == <<filter_op, consumer, vec>>
pipeline == <<root, leaves, last_split, zipped, cost, tasks, op_calls, sinks>>
run_setup == <<max_joins, construction, pipeline, thief>>
vars == <<threads_at_work, injected_jobs, state_lock, work_available, primed,
          worker_thread_state,
          deque, deque_lock, previous, next, latch, stack, nextJob,
          max_joins, hist, once, the_registry, spawned, registries, caller,
          root, leaves, last_split, zipped, cost, tasks, op_calls,
          filter_op, consumer, vec, thief>>

----------------------------------------------------------------------------
\* Frames of the call stacks.

\* op: the function the frame runs; pc: where it is; job: the job of a join
\* or closure; held: the job a worker has in hand; was_active and victims:
\* the locals of main_loop and steal_work.
Frame(op, pc, job) ==
  [op |-> op, pc |-> pc, job |-> job, held |-> NULL_JOB,
   was_active |-> FALSE, victims |-> <<>>]

Top(t) == stack[t][Len(stack[t])]
At(t, op, pc) == Top(t).op = op /\ Top(t).pc = pc
SetTop(t, f) == [stack EXCEPT ![t] = [@ EXCEPT ![Len(@)] = f]]
Call(t, f, g) == [stack EXCEPT ![t] = Append([@ EXCEPT ![Len(@)] = f], g)]
Return(t) == [stack EXCEPT ![t] = SubSeq(@, 1, Len(@) - 1)]

\* A constructing thread: api (the entry point it calls), pc, n (the
\* num_threads of its call), index (the loop variable of Registry::new and
\* wait_until_primed), registry (the registry it builds), ret (the registry
\* it gets), err (the error or panic it gets instead).
NoRegistry == 0
Idle(api) ==
  [api |-> api, pc |-> "idle", n |-> 0, index |-> 0, registry |-> NoRegistry,
   ret |-> NoRegistry, err |-> "none"]

\* No parallel iterator is in use.
NoProducer == [kind |-> "none"]
\* steal_work has not been called.
NoThief == [pc |-> "idle", num_threads |-> NumWorkers, index |-> 0,
            start |-> 0, victims |-> <<>>, attempts |-> <<>>,
            ret |-> NULL_JOB, unpushed |-> {}]
ForEachConsumer == [kind |-> "for_each"]
\* A Vec of n elements that nothing has been collected into.  `drops` counts
\* the times what a slot of the buffer was given by collect_into is dropped.
Vec(n) == [pc |-> "idle", len |-> n,
           buf |-> [i \in 1 .. n |-> [old |-> TRUE, writes |-> <<>>]],
           panicked |-> FALSE,
           drops |-> [i \in 1 .. n |-> 0]]
NoSinks ==
  /\ filter_op = {}
  /\ consumer = ForEachConsumer
  /\ vec = Vec(0)
NoPipeline ==
  /\ NoSinks
  /\ root = NoProducer
  /\ leaves = <<>>
  /\ last_split = [index |-> 0, of |-> NoProducer, left |-> NoProducer,
                   right |-> NoProducer]
  /\ zipped = [called |-> FALSE, a |-> 0, b |-> 0, panic |-> FALSE, len |-> 0]
  /\ cost = 0
  /\ tasks = <<>>
  /\ op_calls = <<>>

\* The pool is built and every thread holds its registry.
Constructed ==
  /\ once = "done"
  /\ the_registry = 1
  /\ spawned = Workers
  /\ registries = 1
  /\ caller = [c \in Callers |->
                 [Idle("get_registry") EXCEPT !.pc = "returned", !.n = NumWorkers,
                                              !.ret = 1]]

\* A job built around closure A instead of closure B.
execute_a(t, g, job) == Call(t, [g EXCEPT !.held = NULL_JOB],
                             Frame("closure", "A", job))

\* (*job).execute() on thread t whose frame continues as g: closure B of the
\* job's join runs on top of g; the latch is set when it has terminated.
execute(t, g, job) == Call(t, [g EXCEPT !.held = NULL_JOB],
                           Frame("closure", "job", job))

\* The thread whose join allocated job j, while that join has not returned.
JoinThread(j) ==
  IF \E t \in Threads : \E i \in 1 .. Len(stack[t]) :
        stack[t][i].op = "join" /\ stack[t][i].job = j
  THEN CHOOSE t \in Threads : \E i \in 1 .. Len(stack[t]) :
        stack[t][i].op = "join" /\ stack[t][i].job = j
  ELSE NoThread

\* Who runs a closure of join j when thread t starts it: the thread that
\* called the join ("caller"), or another one that took the job ("thief"
\* from a deque, "handed" from injected_jobs).
RunBy(t, j, how) == IF t = JoinThread(j) THEN "caller" ELSE how

\* History of a job: a (who ran A), aDone / bDone (A, B terminated),
\* failed (the executed job ended in a failure), returned (the join
\* returned), execs (who ran B, one entry per run),
\* pushes / injects (insertions into a deque / injected_jobs), steals /
\* handed (removals by steal_work_from / wait_for_work), popped (the result
\* of pop).
NoHist ==
  [a |-> "none", aDone |-> FALSE, bDone |-> FALSE, failed |-> FALSE,
   returned |-> FALSE,
   execs |-> <<>>, pushes |-> 0, injects |-> 0, steals |-> 0, handed |-> 0,
   popped |-> "none"]

Init ==
  /\ threads_at_work = 0
  /\ injected_jobs = <<>>
  /\ state_lock = NoThread
  /\ work_available = {}
  /\ primed = [w \in Workers |-> FALSE]
  /\ worker_thread_state = [t \in Threads |-> NULL_WORKER]
  /\ deque = [w \in Workers |-> [top |-> NULL_JOB, bottom |-> NULL_JOB]]
  /\ deque_lock = [w \in Workers |-> NoThread]
  /\ previous = [j \in Jobs |-> NULL_JOB]
  /\ next = [j \in Jobs |-> NULL_JOB]
  /\ latch = [j \in Jobs |-> FALSE]
  /\ stack = [t \in Threads |->
                IF t \in Workers THEN <<Frame("main_loop", "startup", NULL_JOB)>>
                                 ELSE <<Frame("closure", "root", NULL_JOB)>>]
  /\ nextJob = 1
  /\ max_joins = MaxJobs
  /\ hist = [j \in Jobs |-> NoHist]
  /\ thief = NoThief
  /\ Constructed
  /\ NoPipeline

----------------------------------------------------------------------------
\* The intrusive deque (WorkerThread::push, WorkerThread::pop,
\* steal_work_from), as functions of the deque and the jobs' links.

\* push that returns without linking the job.
push_nothing(dq, prev, nxt, job) ==
  [deque |-> dq, previous |-> prev, next |-> nxt]

push(dq, prev, nxt, job) ==
  LET top == dq.top IN
  [deque |-> [top |-> job,
              bottom |-> IF dq.bottom = NULL_JOB THEN job ELSE dq.bottom],
   previous |-> [prev EXCEPT ![job] = top],
   next |-> IF top # NULL_JOB THEN [nxt EXCEPT ![top] = job] ELSE nxt]

\* pop without the test of the top: reports success for a stolen job too.
pop_always_true(dq, prev, nxt, job) ==
  IF dq.top = job
  THEN LET previous_job == prev[job] IN
       [ok |-> TRUE,
        deque |-> [top |-> previous_job,
                   bottom |-> IF previous_job # NULL_JOB THEN dq.bottom
                                                          ELSE NULL_JOB],
        next |-> IF previous_job # NULL_JOB
                 THEN [nxt EXCEPT ![previous_job] = NULL_JOB] ELSE nxt]
  ELSE [ok |-> TRUE, deque |-> dq, next |-> nxt]

\* pop that reports success but leaves the job linked at the top.
pop_no_unlink(dq, prev, nxt, job) ==
  [ok |-> dq.top = job, deque |-> dq, next |-> nxt]

\* pop that forgets to clear the `next` link of the new top.
pop_no_patch(dq, prev, nxt, job) ==
  IF dq.top = job
  THEN LET previous_job == prev[job] IN
       [ok |-> TRUE,
        deque |-> [top |-> previous_job,
                   bottom |-> IF previous_job # NULL_JOB THEN dq.bottom
                                                          ELSE NULL_JOB],
        next |-> nxt]
  ELSE [ok |-> FALSE, deque |-> dq, next |-> nxt]

pop(dq, prev, nxt, job) ==
  IF dq.top = job
  THEN LET previous_job == prev[job] IN
       [ok |-> TRUE,
        deque |-> [top |-> previous_job,
                   bottom |-> IF previous_job # NULL_JOB THEN dq.bottom
                                                          ELSE NULL_JOB],
        next |-> IF previous_job # NULL_JOB
                 THEN [nxt EXCEPT ![previous_job] = NULL_JOB] ELSE nxt]
  ELSE [ok |-> FALSE, deque |-> dq, next |-> nxt]

\* steal_work_from that returns the bottom job without unlinking it.
steal_work_from_keep(dq, prev, nxt) ==
  [job |-> dq.bottom, deque |-> dq, previous |-> prev]

\* steal_work_from that forgets to clear `top` when it takes the last job.
steal_work_from_stale_top(dq, prev, nxt) ==
  IF dq.bottom = NULL_JOB
  THEN [job |-> NULL_JOB, deque |-> dq, previous |-> prev]
  ELSE LET job == dq.bottom
           next_job == nxt[job] IN
       [job |-> job,
        deque |-> [bottom |-> next_job, top |-> dq.top],
        previous |-> IF next_job # NULL_JOB
                     THEN [prev EXCEPT ![next_job] = NULL_JOB] ELSE prev]

\* steal_work_from that unlinks the bottom job and then reports None.
steal_work_from_drop(dq, prev, nxt) ==
  IF dq.bottom = NULL_JOB
  THEN [job |-> NULL_JOB, deque |-> dq, previous |-> prev]
  ELSE LET job == dq.bottom
           next_job == nxt[job] IN
       [job |-> NULL_JOB,
        deque |-> [bottom |-> next_job,
                   top |-> IF next_job # NULL_JOB THEN dq.top ELSE NULL_JOB],
        previous |-> IF next_job # NULL_JOB
                     THEN [prev EXCEPT ![next_job] = NULL_JOB] ELSE prev]

\* steal_work_from that takes the job at the top.
steal_work_from_top(dq, prev, nxt) ==
  IF dq.bottom = NULL_JOB
  THEN [job |-> NULL_JOB, deque |-> dq, previous |-> prev]
  ELSE LET job == dq.top
           previous_job == prev[job] IN
       [job |-> job,
        deque |-> [top |-> previous_job,
                   bottom |-> IF previous_job # NULL_JOB THEN dq.bottom
                                                          ELSE NULL_JOB],
        previous |-> prev]

steal_work_from(dq, prev, nxt) ==
  IF dq.bottom = NULL_JOB
  THEN [job |-> NULL_JOB, deque |-> dq, previous |-> prev]
  ELSE LET job == dq.bottom
           next_job == nxt[job] IN
       [job |-> job,
        deque |-> [bottom |-> next_job,
                   top |-> IF next_job # NULL_JOB THEN dq.top ELSE NULL_JOB],
        previous |-> IF next_job # NULL_JOB
                     THEN [prev EXCEPT ![next_job] = NULL_JOB] ELSE prev]

\* A MutexGuard of a deque that is never dropped.
guard_leak(locks, w) == locks

\* The MutexGuard of deque w goes out of scope.
guard_drop(locks, w) == [locks EXCEPT ![w] = NoThread]

\* A chain that starts at deque 0 whatever the start.
steal_chain_unrotated(start, index, n) ==
  SelectSeq([i \in 1 .. n |-> i - 1], LAMBDA v : v # index)

\* (start .. num_threads).chain(0 .. start).filter(|&i| i != index)
steal_chain(start, index, n) ==
  SelectSeq([i \in 1 .. n |-> (start + i - 1) % n], LAMBDA v : v # index)

\* The order in which steal_work visits the deques.
steal_order(start, index) == steal_chain(start, index, NumWorkers)

\* A notification that wakes nobody.
notify_lost(waiters) == waiters

\* Condvar::notify_all: nobody stays blocked.
notify_all(waiters) == {}

\* wait_for_work that forgets the decrement of a worker that was active.
never_decrement(taw, was_active) == taw

\* wait_for_work on entry: if was_active { state.threads_at_work -= 1 }
decrement_if_active(taw, was_active) == IF was_active THEN taw - 1 ELSE taw

\* A wait_for_work that does not look at injected_jobs.
ignores_injected(q) == FALSE

\* wait_for_work: `if let Some(job) = state.injected_jobs.pop()`.
has_injected(q) == q # <<>>

\* A wait_for_work that blocks although threads are at work.
never_spin_up(taw) == FALSE

\* wait_for_work: `if state.threads_at_work > 0 { return None; }`.
spin_up(taw) == taw > 0

\* Reads the last element of injected_jobs without removing it.
injected_peek(q) == [job |-> q[Len(q)], rest |-> q]

\* Takes the first element of injected_jobs, the one injected earliest.
injected_pop_front(q) == [job |-> Head(q), rest |-> Tail(q)]

\* Vec::pop on injected_jobs: the last element and the rest.
injected_pop(q) == [job |-> q[Len(q)], rest |-> SubSeq(q, 1, Len(q) - 1)]

----------------------------------------------------------------------------
\* main_loop and Registry::wait_for_work / start_working.

\* set_current that asserts and then forgets to store the worker.
set_current_forgets(tls, index) == [ok |-> tls = NULL_WORKER, tls |-> tls]

\* WorkerThread::set_current on a thread whose thread-local holds tls:
\* assert!(t.get().is_null()); t.set(self).
set_current(tls, index) ==
  IF tls = NULL_WORKER THEN [ok |-> TRUE, tls |-> index]
                       ELSE [ok |-> FALSE, tls |-> tls]

\* WorkerThread::current() and, on a worker, its index().
current(t) == worker_thread_state[t]

\* main_loop(registry, index = w) up to the loop: set_current, primed.set(),
\* was_active = false.  A failed assertion in set_current ends the thread.
main_loop_startup(w) ==
  /\ At(w, "main_loop", "startup")
  /\ LET r == set_current(worker_thread_state[w], w) IN
     /\ worker_thread_state' = [worker_thread_state EXCEPT ![w] = r.tls]
     /\ IF r.ok
        THEN /\ primed' = [primed EXCEPT ![w] = TRUE]
             /\ stack' = SetTop(w, [Top(w) EXCEPT !.pc = "wfw_lock"])
        ELSE /\ stack' = SetTop(w, [Top(w) EXCEPT !.pc = "panicked"])
             /\ UNCHANGED primed
  /\ UNCHANGED <<registry, deques, latch, nextJob, run_setup, hist>>

\* wait_for_work: self.state.lock()
wait_for_work_lock(w) ==
  /\ At(w, "main_loop", "wfw_lock")
  /\ state_lock = NoThread
  /\ state_lock' = w
  /\ stack' = SetTop(w, [Top(w) EXCEPT !.pc = "wfw_cs"])
  /\ UNCHANGED <<threads_at_work, injected_jobs, work_available, thread_state,
                 deques, latch, nextJob, run_setup, hist>>

\* wait_for_work with the state lock held: the optional decrement and one
\* iteration of the loop, ending in a return (the guard is dropped) or in
\* Condvar::wait (the guard is dropped and the thread blocks).
wait_for_work(w) ==
  /\ At(w, "main_loop", "wfw_cs")
  /\ LET taw == decrement_if_active(threads_at_work, Top(w).was_active)
         f == [Top(w) EXCEPT !.was_active = FALSE] IN
     IF has_injected(injected_jobs)
     THEN LET r == injected_pop(injected_jobs) IN
          /\ injected_jobs' = r.rest
          /\ threads_at_work' = taw + 1
          /\ work_available' = notify_all(work_available)
          /\ stack' = execute(w, [f EXCEPT !.pc = "wfw_lock",
                                            !.was_active = TRUE], r.job)
          /\ hist' = [hist EXCEPT
                        ![r.job].handed = @ + 1,
                        ![r.job].execs = Append(@, RunBy(w, r.job, "handed"))]
     ELSE /\ threads_at_work' = taw
          /\ UNCHANGED <<injected_jobs, hist>>
          /\ IF spin_up(taw)
             THEN /\ stack' = SetTop(w, [f EXCEPT !.pc = "steal_work"])
                  /\ UNCHANGED work_available
             ELSE /\ stack' = SetTop(w, [f EXCEPT !.pc = "cv_wait"])
                  /\ work_available' = work_available \cup {w}
  /\ state_lock' = NoThread
  /\ UNCHANGED <<thread_state, deques, latch, nextJob, run_setup>>

\* Condvar::wait returns: the thread was notified and has the lock again.
wait_for_work_wake(w) ==
  /\ At(w, "main_loop", "cv_wait")
  /\ w \notin work_available
  /\ state_lock = NoThread
  /\ state_lock' = w
  /\ stack' = SetTop(w, [Top(w) EXCEPT !.pc = "wfw_cs"])
  /\ UNCHANGED <<threads_at_work, injected_jobs, work_available, thread_state,
                 deques, latch, nextJob, run_setup, hist>>

\* start_working: self.state.lock()
start_working_lock(w) ==
  /\ At(w, "main_loop", "sw_lock")
  /\ state_lock = NoThread
  /\ state_lock' = w
  /\ stack' = SetTop(w, [Top(w) EXCEPT !.pc = "sw_cs"])
  /\ UNCHANGED <<threads_at_work, injected_jobs, work_available, thread_state,
                 deques, latch, nextJob, run_setup, hist>>

start_working(w) ==
  /\ At(w, "main_loop", "sw_cs")
  /\ threads_at_work' = threads_at_work + 1
  /\ work_available' = notify_all(work_available)
  /\ state_lock' = NoThread
  /\ stack' = execute(w, [Top(w) EXCEPT !.pc = "wfw_lock",
                                         !.was_active = TRUE], Top(w).held)
  /\ hist' = [hist EXCEPT
                ![Top(w).held].execs = Append(@, RunBy(w, Top(w).held, "thief"))]
  /\ UNCHANGED <<injected_jobs, thread_state, deques, latch, nextJob, run_setup>>

----------------------------------------------------------------------------
\* steal_work, called by main_loop and by the wait loop of join.

\* Where the caller of steal_work continues when it returned None.
stole_nothing(f) ==
  IF f.op = "main_loop"
  THEN [f EXCEPT !.pc = "wfw_lock", !.was_active = FALSE, !.victims = <<>>]
  ELSE [f EXCEPT !.pc = "wait", !.victims = <<>>]

\* steal_work up to the next deque lock.  On entry: the random start and the
\* chain of deques to visit; then thread_info.deque.lock() of steal_work_from
\* on the next deque of the chain.
steal_work(t) ==
  /\ Top(t).pc \in {"steal_work", "steal_lock"}
  /\ \E start \in Workers :
       LET vs == IF Top(t).pc = "steal_work" THEN steal_order(start, t)
                                            ELSE Top(t).victims IN
       IF vs = <<>>
       THEN /\ stack' = SetTop(t, stole_nothing(Top(t)))
            /\ UNCHANGED deque_lock
       ELSE /\ deque_lock[Head(vs)] = NoThread
            /\ deque_lock' = [deque_lock EXCEPT ![Head(vs)] = t]
            /\ stack' = SetTop(t, [Top(t) EXCEPT !.pc = "steal_cs",
                                                 !.victims = vs])
  /\ UNCHANGED <<registry, thread_state, deque, previous, next, latch, nextJob, run_setup,
                 run_setup, hist>>

\* steal_work_from with the deque lock held, and the filter_map/next of
\* steal_work that consumes its result.
steal_work_from_cs(t) ==
  /\ Top(t).pc = "steal_cs"
  /\ LET v == Head(Top(t).victims)
         r == steal_work_from(deque[v], previous, next)
         rest == Tail(Top(t).victims) IN
     /\ deque' = [deque EXCEPT ![v] = r.deque]
     /\ previous' = r.previous
     /\ deque_lock' = guard_drop(deque_lock, v)
     /\ IF r.job # NULL_JOB
        THEN IF Top(t).op = "main_loop"
             THEN /\ stack' = SetTop(t, [Top(t) EXCEPT !.pc = "sw_lock",
                                                        !.held = r.job,
                                                        !.victims = <<>>])
                  /\ hist' = [hist EXCEPT ![r.job].steals = @ + 1]
             ELSE /\ stack' = execute(t, [Top(t) EXCEPT !.pc = "wait",
                                                         !.victims = <<>>],
                                      r.job)
                  /\ hist' = [hist EXCEPT
                                ![r.job].steals = @ + 1,
                                ![r.job].execs =
                                    Append(@, RunBy(t, r.job, "thief"))]
        ELSE /\ stack' = SetTop(t, IF rest = <<>> THEN stole_nothing(Top(t))
                                   ELSE [Top(t) EXCEPT !.pc = "steal_lock",
                                                       !.victims = rest])
             /\ UNCHANGED hist
  /\ UNCHANGED <<registry, thread_state, next, latch, nextJob, run_setup>>

----------------------------------------------------------------------------
\* User closures.

\* A closure calls join(A, B): a job for B is allocated in the frame.
closure_join(t) ==
  /\ Top(t).op = "closure"
  /\ nextJob <= max_joins
  /\ stack' = Call(t, Top(t),
                   Frame("join", IF t \in Workers THEN "push_lock"
                                                  ELSE "inject_lock", nextJob))
  /\ UNCHANGED hist
  /\ nextJob' = nextJob + 1
  /\ UNCHANGED <<registry, thread_state, deques, latch, run_setup>>

\* A closure terminates (with a value or a failure).  When it is the B that
\* join ran inline, join has both results and returns as well.  When it is
\* the closure of an executed job, Job::execute stores the outcome in the
\* result slot, sets the latch and returns to its caller.
closure_finish(t) ==
  /\ Top(t).op = "closure"
  /\ Top(t).pc # "root"
  /\ stack' = IF Top(t).pc = "B"
              THEN [stack EXCEPT ![t] = SubSeq(@, 1, Len(@) - 2)]
              ELSE Return(t)
  /\ LET j == Top(t).job IN
     /\ CASE Top(t).pc = "A" -> hist' = [hist EXCEPT ![j].aDone = TRUE]
          [] Top(t).pc = "B" -> hist' = [hist EXCEPT ![j].bDone = TRUE,
                                                    ![j].returned = TRUE]
          [] OTHER -> \E failure \in BOOLEAN :
                        hist' = [hist EXCEPT ![j].bDone = TRUE,
                                             ![j].failed = failure]
     /\ latch' = IF Top(t).pc = "job" THEN [latch EXCEPT ![j] = TRUE]
                                      ELSE latch
  /\ UNCHANGED <<registry, thread_state, deques, nextJob, run_setup>>

----------------------------------------------------------------------------
\* join(A, B).

\* WorkerThread::push: thread_info.deque.lock()
push_lock(w) ==
  /\ At(w, "join", "push_lock")
  /\ deque_lock[w] = NoThread
  /\ deque_lock' = [deque_lock EXCEPT ![w] = w]
  /\ stack' = SetTop(w, [Top(w) EXCEPT !.pc = "push_cs"])
  /\ UNCHANGED <<registry, thread_state, deque, previous, next, latch, nextJob, run_setup, hist>>

push_cs(w) ==
  /\ At(w, "join", "push_cs")
  /\ LET j == Top(w).job
         r == push(deque[w], previous, next, j) IN
     /\ deque' = [deque EXCEPT ![w] = r.deque]
     /\ previous' = r.previous
     /\ next' = r.next
     /\ hist' = [hist EXCEPT ![j].pushes = @ + 1]
  /\ deque_lock' = guard_drop(deque_lock, w)
  /\ stack' = SetTop(w, [Top(w) EXCEPT !.pc = "runA"])
  /\ UNCHANGED <<registry, thread_state, latch, nextJob, run_setup>>

\* join invokes A inline.
join_run_a(t) ==
  /\ At(t, "join", "runA")
  /\ stack' = Call(t, [Top(t) EXCEPT !.pc = IF t \in Workers THEN "pop_lock"
                                                            ELSE "latch_wait"],
                   Frame("closure", "A", Top(t).job))
  /\ hist' = [hist EXCEPT ![Top(t).job].a = RunBy(t, Top(t).job, "other")]
  /\ UNCHANGED <<registry, thread_state, deques, latch, nextJob, run_setup>>

\* WorkerThread::pop: thread_info.deque.lock()
pop_lock(w) ==
  /\ At(w, "join", "pop_lock")
  /\ deque_lock[w] = NoThread
  /\ deque_lock' = [deque_lock EXCEPT ![w] = w]
  /\ stack' = SetTop(w, [Top(w) EXCEPT !.pc = "pop_cs"])
  /\ UNCHANGED <<registry, thread_state, deque, previous, next, latch, nextJob, run_setup, hist>>

pop_cs(w) ==
  /\ At(w, "join", "pop_cs")
  /\ LET j == Top(w).job
         r == pop(deque[w], previous, next, j) IN
     /\ deque' = [deque EXCEPT ![w] = r.deque]
     /\ next' = r.next
     /\ hist' = [hist EXCEPT ![j].popped = IF r.ok THEN "true" ELSE "false"]
     /\ stack' = SetTop(w, [Top(w) EXCEPT !.pc = IF r.ok THEN "runB"
                                                         ELSE "wait"])
  /\ deque_lock' = guard_drop(deque_lock, w)
  /\ UNCHANGED <<registry, thread_state, previous, latch, nextJob, run_setup>>

\* pop succeeded: join executes B inline.
join_run_b(w) ==
  /\ At(w, "join", "runB")
  /\ stack' = Call(w, [Top(w) EXCEPT !.pc = "ret"],
                   Frame("closure", "B", Top(w).job))
  /\ hist' = [hist EXCEPT
                ![Top(w).job].execs = Append(@, RunBy(w, Top(w).job, "other"))]
  /\ UNCHANGED <<registry, thread_state, deques, latch, nextJob, run_setup>>

\* pop failed: the wait-but-work loop.  join returns once the latch is set,
\* and tries to steal other work until then.
join_wait(w) ==
  /\ At(w, "join", "wait")
  /\ IF latch[Top(w).job]
     THEN /\ stack' = Return(w)
          /\ hist' = [hist EXCEPT ![Top(w).job].returned = TRUE]
     ELSE /\ stack' = SetTop(w, [Top(w) EXCEPT !.pc = "steal_work"])
          /\ UNCHANGED hist
  /\ UNCHANGED <<registry, thread_state, deques, latch, nextJob, run_setup>>

\* join on a thread that is not a worker: inject(&[job_b]).
\* Registry::inject: self.state.lock()
inject_lock(e) ==
  /\ At(e, "join", "inject_lock")
  /\ state_lock = NoThread
  /\ state_lock' = e
  /\ stack' = SetTop(e, [Top(e) EXCEPT !.pc = "inject_cs"])
  /\ UNCHANGED <<threads_at_work, injected_jobs, work_available, thread_state,
                 deques, latch, nextJob, run_setup, hist>>

inject(e) ==
  /\ At(e, "join", "inject_cs")
  /\ injected_jobs' = Append(injected_jobs, Top(e).job)
  /\ work_available' = notify_all(work_available)
  /\ state_lock' = NoThread
  /\ stack' = SetTop(e, [Top(e) EXCEPT !.pc = "runA"])
  /\ hist' = [hist EXCEPT ![Top(e).job].injects = @ + 1]
  /\ UNCHANGED <<threads_at_work, thread_state, deques, latch, nextJob, run_setup>>

\* join on a thread that is not a worker: latch_b.wait(), then return.
latch_wait(e) ==
  /\ At(e, "join", "latch_wait")
  /\ latch[Top(e).job]
  /\ stack' = Return(e)
  /\ hist' = [hist EXCEPT ![Top(e).job].returned = TRUE]
  /\ UNCHANGED <<registry, thread_state, deques, latch, nextJob, run_setup>>

----------------------------------------------------------------------------

Step(t) ==
  \/ main_loop_startup(t)
  \/ wait_for_work_lock(t)
  \/ wait_for_work(t)
  \/ wait_for_work_wake(t)
  \/ start_working_lock(t)
  \/ start_working(t)
  \/ steal_work(t)
  \/ steal_work_from_cs(t)
  \/ closure_join(t)
  \/ closure_finish(t)
  \/ push_lock(t)
  \/ push_cs(t)
  \/ join_run_a(t)
  \/ pop_lock(t)
  \/ pop_cs(t)
  \/ join_run_b(t)
  \/ join_wait(t)
  \/ inject_lock(t)
  \/ inject(t)
  \/ latch_wait(t)

Next == \E t \in Threads : Step(t)

Spec == Init /\ [][Next]_vars

\* Fair scheduling: a thread that can take a step again and again (it is
\* runnable, or the lock it wants is free again and again) eventually takes
\* one.  The runs make at most MaxJobsFair join calls.
FairInit ==
  /\ threads_at_work = 0
  /\ injected_jobs = <<>>
  /\ state_lock = NoThread
  /\ work_available = {}
  /\ primed = [w \in Workers |-> FALSE]
  /\ worker_thread_state = [t \in Threads |-> NULL_WORKER]
  /\ deque = [w \in Workers |-> [top |-> NULL_JOB, bottom |-> NULL_JOB]]
  /\ deque_lock = [w \in Workers |-> NoThread]
  /\ previous = [j \in Jobs |-> NULL_JOB]
  /\ next = [j \in Jobs |-> NULL_JOB]
  /\ latch = [j \in Jobs |-> FALSE]
  /\ stack = [t \in Threads |->
                IF t \in Workers THEN <<Frame("main_loop", "startup", NULL_JOB)>>
                                 ELSE <<Frame("closure", "root", NULL_JOB)>>]
  /\ nextJob = 1
  /\ max_joins = MaxJobsFair
  /\ hist = [j \in Jobs |-> NoHist]
  /\ thief = NoThief
  /\ Constructed
  /\ NoPipeline

FairSpec == FairInit /\ [][Next]_vars /\ \A t \in Threads : SF_vars(Step(t))

\* The same steps from the same initial state as Spec, scheduled fairly.
RecoverSpec == Init /\ [][Next]_vars /\ \A t \in Threads : SF_vars(Step(t))

----------------------------------------------------------------------------
\* Construction of a registry: get_registry (the global one, behind a Once)
\* and the construction of a pool from a configuration, both through
\* Registry::new; and Registry::wait_until_primed.

\* Once::call_once that lets a thread pass while the initializer runs.
call_once_no_block(o) == IF o = "new" THEN "run" ELSE "pass"

\* Once::call_once for a thread that arrives when the Once is in state o:
\* it runs the closure, blocks until the closure has run, or passes.
call_once(o) ==
  CASE o = "new" -> "run"
    [] o = "running" -> "wait"
    [] OTHER -> "pass"

\* A validation that lets num_threads = 0 through.
validate_nothing(n) == "none"

\* Validation of the configuration of a pool: num_threads = 0 is an error.
validate(n) == IF n = 0 THEN "NumberOfThreadsZero" ELSE "none"

\* The loop of Registry::new: for index in 0 .. num_threads.
spawn_next(index, num_threads) == index < num_threads

\* A wait_until_primed that skips the last worker.
thread_infos_short(n) == 0 .. (n - 2)

\* Registry.thread_infos of a registry built with num_threads = n, by index.
thread_infos(n) == 0 .. (n - 1)

\* Registry::num_threads of the registry that thread c has in hand.
num_threads(c) == IF caller[c].api = "get_registry" THEN NumWorkers
                                                    ELSE caller[c].n

SetCaller(c, f) == [caller EXCEPT ![c] = f]

\* get_registry: THE_REGISTRY_SET.call_once(...).  The thread that is to run
\* the closure enters Registry::new(NUM_CPUS); one that arrives while the
\* closure runs blocks (the step is not enabled); the others pass.
get_registry_call_once(c) ==
  /\ caller[c].api = "get_registry"
  /\ caller[c].pc = "idle"
  /\ LET todo == call_once(once) IN
     /\ todo # "wait"
     /\ IF todo = "run"
        THEN /\ once' = "running"
             /\ caller' = SetCaller(c, [caller[c] EXCEPT !.pc = "new",
                                                         !.n = NumWorkers])
        ELSE /\ caller' = SetCaller(c, [caller[c] EXCEPT !.pc = "unwrap"])
             /\ UNCHANGED once
  /\ UNCHANGED <<registry, thread_state, deques, latch, stack, nextJob,
                 max_joins, pipeline, thief, hist, the_registry, spawned, registries>>

\* The pool constructor called with num_threads = n: the configuration is
\* validated, then Registry::new(n) builds the pool.
pool_new(c) ==
  /\ caller[c].api = "ThreadPool::new"
  /\ caller[c].pc = "idle"
  /\ \E n \in 0 .. NumWorkers :
       /\ validate(n) = "none" =>
            /\ registries = 0
            /\ \A d \in Callers : caller[d].pc # "new"
       /\ caller' = SetCaller(c, IF validate(n) = "none"
                              THEN [caller[c] EXCEPT !.pc = "new", !.n = n]
                              ELSE [caller[c] EXCEPT !.pc = "returned",
                                                     !.n = n,
                                                     !.err = validate(n)])
  /\ UNCHANGED <<registry, thread_state, deques, latch, stack, nextJob,
                 max_joins, pipeline, thief, hist, once, the_registry, spawned, registries>>

\* Registry::new: Arc::new(Registry { thread_infos, state, work_available }).
registry_new(c) ==
  /\ caller[c].pc = "new"
  /\ registries' = registries + 1
  /\ caller' = SetCaller(c, [caller[c] EXCEPT !.pc = "spawn", !.index = 0,
                                              !.registry = registries + 1])
  /\ UNCHANGED <<registry, thread_state, deques, latch, stack, nextJob,
                 max_joins, pipeline, thief, hist, once, the_registry, spawned>>

\* Registry::new: one iteration of the loop (thread::spawn of main_loop with
\* the next index), or the return of the registry.  get_registry then
\* stores it in THE_REGISTRY and the Once is done.
registry_new_spawn(c) ==
  /\ caller[c].pc = "spawn"
  /\ IF spawn_next(caller[c].index, caller[c].n)
     THEN /\ spawned' = spawned \cup {caller[c].index}
          /\ caller' = SetCaller(c, [caller[c] EXCEPT !.index = @ + 1])
          /\ UNCHANGED <<once, the_registry>>
     ELSE /\ UNCHANGED spawned
          /\ IF caller[c].api = "get_registry"
             THEN /\ the_registry' = caller[c].registry
                  /\ once' = "done"
                  /\ caller' = SetCaller(c, [caller[c] EXCEPT !.pc = "unwrap"])
             ELSE /\ caller' = SetCaller(c, [caller[c] EXCEPT
                                               !.pc = "returned",
                                               !.ret = caller[c].registry])
                  /\ UNCHANGED <<once, the_registry>>
  /\ UNCHANGED <<registry, thread_state, deques, latch, stack, nextJob,
                 max_joins, pipeline, thief, hist, registries>>

\* get_registry: THE_REGISTRY.unwrap(), which panics on None.
get_registry_unwrap(c) ==
  /\ caller[c].pc = "unwrap"
  /\ caller' = SetCaller(c, IF the_registry = NoRegistry
                            THEN [caller[c] EXCEPT !.pc = "returned",
                                                   !.err = "panic"]
                            ELSE [caller[c] EXCEPT !.pc = "returned",
                                                   !.ret = the_registry])
  /\ UNCHANGED <<registry, thread_state, deques, latch, stack, nextJob,
                 max_joins, pipeline, thief, hist, once, the_registry, spawned, registries>>

\* Registry::wait_until_primed on the registry the thread got: the wait on
\* the primed latch of the next worker, or the return after the last one.
wait_until_primed(c) ==
  /\ caller[c].pc \in {"returned", "wait_until_primed"}
  /\ caller[c].ret # NoRegistry
  /\ LET f == IF caller[c].pc = "returned"
              THEN [caller[c] EXCEPT !.pc = "wait_until_primed", !.index = 0]
              ELSE caller[c] IN
     IF f.index \in thread_infos(num_threads(c))
     THEN /\ primed[f.index]
          /\ caller' = SetCaller(c, [f EXCEPT !.index = @ + 1])
     ELSE /\ f.pc = "wait_until_primed"
          /\ caller' = SetCaller(c, [f EXCEPT !.pc = "primed"])
  /\ UNCHANGED <<registry, thread_state, deques, latch, stack, nextJob,
                 max_joins, pipeline, thief, hist, once, the_registry, spawned, registries>>

\* A spawned worker starts its main loop; with no work it blocks in
\* wait_for_work.
worker_start(w) ==
  /\ w \in spawned
  /\ \/ main_loop_startup(w)
     \/ wait_for_work_lock(w)
     \/ wait_for_work(w)

Construct(c) ==
  \/ get_registry_call_once(c)
  \/ pool_new(c)
  \/ registry_new(c)
  \/ registry_new_spawn(c)
  \/ get_registry_unwrap(c)
  \/ wait_until_primed(c)

ConstructNext ==
  \/ \E c \in Callers : Construct(c)
  \/ \E w \in Workers : worker_start(w)

\* No registry exists; the constructing threads all go for the global
\* registry, or they all construct pools of their own (the model has the
\* workers of one pool, so one construction at most gets to Registry::new).
ConstructInit ==
  /\ threads_at_work = 0
  /\ injected_jobs = <<>>
  /\ state_lock = NoThread
  /\ work_available = {}
  /\ primed = [w \in Workers |-> FALSE]
  /\ worker_thread_state = [t \in Threads |-> NULL_WORKER]
  /\ deque = [w \in Workers |-> [top |-> NULL_JOB, bottom |-> NULL_JOB]]
  /\ deque_lock = [w \in Workers |-> NoThread]
  /\ previous = [j \in Jobs |-> NULL_JOB]
  /\ next = [j \in Jobs |-> NULL_JOB]
  /\ latch = [j \in Jobs |-> FALSE]
  /\ stack = [t \in Threads |->
                IF t \in Workers THEN <<Frame("main_loop", "startup", NULL_JOB)>>
                                 ELSE <<Frame("closure", "root", NULL_JOB)>>]
  /\ nextJob = 1
  /\ max_joins = 0
  /\ hist = [j \in Jobs |-> NoHist]
  /\ thief = NoThief
  /\ once = "new"
  /\ the_registry = NoRegistry
  /\ spawned = {}
  /\ registries = 0
  /\ \E api \in {"get_registry", "ThreadPool::new"} :
       caller = [c \in Callers |-> Idle(api)]
  /\ NoPipeline

ConstructSpec == ConstructInit /\ [][ConstructNext]_vars

----------------------------------------------------------------------------
\* Producers of the parallel iterators: a slice (shared or mutable) under a
\* stack of map and enumerate adapters.  A slice is the place of its first
\* element in the underlying data (ptr) and a length; an item of a slice is
\* the reference to an element, that is, the place of the element.  The
\* map_op of a map is any function; map_op(x) is the term [map_op |-> x].

SliceProducer(kind, ptr, n) == [kind |-> kind, ptr |-> ptr, len |-> n]
MapProducer(base) == [kind |-> "map", base |-> base]
EnumerateProducer(base, offset) ==
  [kind |-> "enumerate", base |-> base, offset |-> offset]

IsSlice(p) == p.kind \in {"slice", "slice_mut"}

RECURSIVE Pipelines(_)
\* The producers into_producer gives for a slice of at most MaxLen elements
\* under at most d adapters (an enumerate starts at offset 0).
Pipelines(d) ==
  IF d = 0
  THEN {SliceProducer(k, 0, n) : k \in {"slice", "slice_mut"}, n \in 0 .. MaxLen}
  ELSE LET B == Pipelines(d - 1) IN
       B \cup {MapProducer(b) : b \in B} \cup {EnumerateProducer(b, 0) : b \in B}

RECURSIVE len(_)
\* ExactParallelIterator::len: the number of items a producer yields.
len(p) == IF IsSlice(p) THEN p.len ELSE len(p.base)

\* A split of a slice whose right half starts where the left one does.
slice_split_at_overlap(s, index) ==
  [left |-> SliceProducer(s.kind, s.ptr, index),
   right |-> SliceProducer(s.kind, s.ptr, s.len - index)]

\* slice.split_at(index) / slice.split_at_mut(index), for index <= len.
slice_split_at(s, index) ==
  [left |-> SliceProducer(s.kind, s.ptr, index),
   right |-> SliceProducer(s.kind, s.ptr + index, s.len - index)]

\* An enumerate whose right half starts again at the offset of the whole.
right_offset_kept(offset, index) == offset

\* EnumerateProducer::split_at: the offset of the right half.
right_offset(offset, index) == offset + index

RECURSIVE split_at(_, _)
\* Producer::split_at(index).
split_at(p, index) ==
  IF IsSlice(p) THEN slice_split_at(p, index)
  ELSE LET s == split_at(p.base, index) IN
       IF p.kind = "map"
       THEN [left |-> MapProducer(s.left), right |-> MapProducer(s.right)]
       ELSE [left |-> EnumerateProducer(s.left, p.offset),
             right |-> EnumerateProducer(s.right, right_offset(p.offset, index))]

RECURSIVE produce(_)
\* Producer::produce on a producer that has items left: the item, and the
\* producer afterwards.
produce(p) ==
  IF IsSlice(p)
  THEN [item |-> p.ptr, rest |-> SliceProducer(p.kind, p.ptr + 1, p.len - 1)]
  ELSE LET r == produce(p.base) IN
       IF p.kind = "map"
       THEN [item |-> [map_op |-> r.item], rest |-> MapProducer(r.rest)]
       ELSE [item |-> [index |-> p.offset, item |-> r.item],
             rest |-> EnumerateProducer(r.rest, p.offset + 1)]

RECURSIVE items(_)
\* The items of a producer in the order of its sequential iteration.
items(p) ==
  IF len(p) = 0 THEN <<>>
  ELSE <<produce(p).item>> \o items(produce(p).rest)

RECURSIVE all_items(_)
\* The items of a sequence of producers, one producer after the other.
all_items(ps) ==
  IF ps = <<>> THEN <<>> ELSE items(Head(ps)) \o all_items(Tail(ps))

min(a, b) == IF a <= b THEN a ELSE b

\* zip::new(a, b) and Zip::len: the shorter of the two lengths.
zip_new(a, b) == [a |-> a, b |-> b]
zip_len(z) == min(len(z.a), len(z.b))

\* zip_eq::new(a, b) and ZipEq::len.
zip_eq_new(a, b) == [zip |-> zip_new(a, b)]
zip_eq_len(ze) == zip_len(ze.zip)

\* A check of the lengths that lets a shorter right side through.
left_is_shorter(la, lb) == la < lb

\* The check zip_eq makes before it builds the ZipEq: the lengths differ.
lengths_differ(la, lb) == la # lb

\* The pool, built and at rest, in the runs that only use the iterators.
PoolAtRest ==
  /\ threads_at_work = 0
  /\ injected_jobs = <<>>
  /\ state_lock = NoThread
  /\ work_available = {}
  /\ primed = [w \in Workers |-> FALSE]
  /\ worker_thread_state = [t \in Threads |-> NULL_WORKER]
  /\ deque = [w \in Workers |-> [top |-> NULL_JOB, bottom |-> NULL_JOB]]
  /\ deque_lock = [w \in Workers |-> NoThread]
  /\ previous = [j \in Jobs |-> NULL_JOB]
  /\ next = [j \in Jobs |-> NULL_JOB]
  /\ latch = [j \in Jobs |-> FALSE]
  /\ stack = [t \in Threads |->
                IF t \in Workers THEN <<Frame("main_loop", "startup", NULL_JOB)>>
                                 ELSE <<Frame("closure", "root", NULL_JOB)>>]
  /\ nextJob = 1
  /\ max_joins = 0
  /\ hist = [j \in Jobs |-> NoHist]
  /\ thief = NoThief
  /\ Constructed

pool == <<thief, registry, thread_state, deques, latch, stack, nextJob, max_joins,
          hist, construction>>

\* split_at(index) on one of the producers, for any index up to its length.
split_leaf ==
  /\ Len(leaves) < MaxLeaves
  /\ \E i \in 1 .. Len(leaves) : \E index \in 0 .. len(leaves[i]) :
       LET s == split_at(leaves[i], index) IN
       /\ leaves' = SubSeq(leaves, 1, i - 1) \o <<s.left, s.right>>
                       \o SubSeq(leaves, i + 1, Len(leaves))
       /\ last_split' = [index |-> index, of |-> leaves[i], left |-> s.left,
                         right |-> s.right]
  /\ UNCHANGED <<pool, sinks, root, zipped, cost, tasks, op_calls>>

\* zip_eq of the root producer with a slice b: a panic, or the ZipEq.
zip_eq ==
  /\ \E b \in Pipelines(0) :
       zipped' = IF lengths_differ(len(root), len(b))
                 THEN [called |-> TRUE, a |-> len(root), b |-> len(b),
                       panic |-> TRUE, len |-> 0]
                 ELSE [called |-> TRUE, a |-> len(root), b |-> len(b),
                       panic |-> FALSE, len |-> zip_eq_len(zip_eq_new(root, b))]
  /\ UNCHANGED <<pool, sinks, root, leaves, last_split, cost, tasks, op_calls>>

SplitInit ==
  /\ PoolAtRest
  /\ NoSinks
  /\ root \in Pipelines(MaxAdapters)
  /\ leaves = <<root>>
  /\ last_split = [index |-> 0, of |-> NoProducer, left |-> NoProducer,
                   right |-> NoProducer]
  /\ zipped = [called |-> FALSE, a |-> 0, b |-> 0, panic |-> FALSE, len |-> 0]
  /\ cost = 0
  /\ tasks = <<>>
  /\ op_calls = <<>>

SplitNext == split_leaf \/ zip_eq

SplitSpec == SplitInit /\ [][SplitNext]_vars

----------------------------------------------------------------------------
\* for_each over the bridge.  A task is one call of bridge: its len argument,
\* the number of times its cost argument has been halved, its producer, the
\* iterations its sequential loop still has to make, and the two calls its
\* join runs.  The two closures of a join run in any interleaving, and the
\* join returns when both have returned.

THRESHOLD == 2

RECURSIVE pow2(_)
pow2(d) == IF d = 0 THEN 1 ELSE 2 * pow2(d - 1)

\* cost > THRESHOLD for a cost argument c halved `halvings` times.
over_threshold(c, halvings) == c > THRESHOLD * pow2(halvings)

\* A predicate that holds for every item.
holds_for_all(item) == TRUE

\* filter_op(&item) of a filter.
filter_op_holds(item) == item \in filter_op

\* filter_op(item) of a filter_map: <<mapped_item>> for Some(mapped_item)
\* and <<>> for None.
filter_map_op(item) ==
  IF item \in filter_op THEN <<[mapped |-> item]>> ELSE <<>>

FilterConsumer(base) == [kind |-> "filter", base |-> base]
FilterMapConsumer(base) == [kind |-> "filter_map", base |-> base]

RECURSIVE consume(_, _, _)
\* Consumer::consume(state, item): the state afterwards.  The state of a
\* ForEachConsumer is unit; the model keeps in it the items op was called on.
consume(c, state, item) ==
  IF c.kind = "for_each" THEN Append(state, item)
  ELSE IF c.kind = "filter"
  THEN IF filter_op_holds(item) THEN consume(c.base, state, item) ELSE state
  ELSE LET m == filter_map_op(item) IN
       IF m # <<>> THEN consume(c.base, state, m[1]) ELSE state

RECURSIVE upper_bound(_)
\* BoundedParallelIterator::upper_bound of a filter or filter_map over a base.
upper_bound(p) ==
  IF p.kind \in {"filter", "filter_map"} THEN upper_bound(p.base) ELSE len(p)

\* The calls a call of bridge has made of start, produce and complete are
\* counted; `fed` holds the items it has handed to consume, and the result of
\* complete stands for the items that were threaded through consume.
Task(n, halvings, producer) ==
  [pc |-> "start", len |-> n, halvings |-> halvings, producer |-> producer,
   todo |-> 0, left |-> 0, right |-> 0,
   starts |-> 0, produces |-> 0, completes |-> 0, fed |-> <<>>,
   result |-> <<>>]

\* A reduce that is handed the right result first.
reduce_swapped(left_result, right_result) == right_result \o left_result

\* C::reduce(consumer_shared, left_result, right_result)
reduce(left_result, right_result) == left_result \o right_result

\* A right half that is told the length of the left one.
right_len_mid(n, mid) == mid

\* The len argument of the right call of bridge.
right_len(n, mid) == n - mid

\* for_each(pi, op): a ForEachConsumer driven over the producer at some cost.
for_each ==
  /\ tasks = <<>>
  /\ \E c \in 0 .. MaxCost :
       /\ cost' = c
       /\ tasks' = <<Task(len(root), 0, root)>>
  /\ UNCHANGED <<pool, sinks, root, leaves, last_split, zipped, op_calls>>

\* bridge, up to the join or to the start of the sequential loop.
bridge(i) ==
  LET t == tasks[i] IN
  /\ t.pc = "start"
  /\ IF t.len > 1 /\ over_threshold(cost, t.halvings)
     THEN LET mid == t.len \div 2
              s == split_at(t.producer, mid) IN
          tasks' = [tasks EXCEPT ![i].pc = "join",
                                 ![i].left = Len(tasks) + 1,
                                 ![i].right = Len(tasks) + 2]
                   \o <<Task(mid, t.halvings + 1, s.left),
                        Task(right_len(t.len, mid), t.halvings + 1, s.right)>>
     ELSE tasks' = [tasks EXCEPT ![i].pc = "loop", ![i].todo = t.len,
                                 ![i].starts = t.starts + 1]
  /\ UNCHANGED <<pool, sinks, root, leaves, last_split, zipped, cost, op_calls>>

\* One iteration of `for _ in 0..len`: produce an item and consume it, which
\* calls op on it; after the last one the call of bridge returns.
bridge_loop(i) ==
  LET t == tasks[i] IN
  /\ t.pc = "loop"
  /\ IF t.todo = 0
     THEN /\ tasks' = [tasks EXCEPT ![i].pc = "done",
                                    ![i].completes = t.completes + 1,
                                    ![i].result = t.fed]
          /\ UNCHANGED op_calls
     ELSE LET r == produce(t.producer) IN
          /\ op_calls' = consume(consumer, op_calls, r.item)
          /\ tasks' = [tasks EXCEPT ![i].producer = r.rest,
                                    ![i].todo = t.todo - 1,
                                    ![i].produces = t.produces + 1,
                                    ![i].fed = Append(t.fed, r.item)]
  /\ UNCHANGED <<pool, sinks, root, leaves, last_split, zipped, cost>>

\* The return of join and the reduce of the two results.
bridge_join(i) ==
  LET t == tasks[i] IN
  /\ t.pc = "join"
  /\ tasks[t.left].pc = "done"
  /\ tasks[t.right].pc = "done"
  /\ tasks' = [tasks EXCEPT ![i].pc = "done",
                            ![i].result = reduce(tasks[t.left].result,
                                                 tasks[t.right].result)]
  /\ UNCHANGED <<pool, sinks, root, leaves, last_split, zipped, cost, op_calls>>

BridgeInit ==
  /\ PoolAtRest
  /\ NoSinks
  /\ root \in Pipelines(MaxAdapters)
  /\ leaves = <<root>>
  /\ last_split = [index |-> 0, of |-> NoProducer, left |-> NoProducer,
                   right |-> NoProducer]
  /\ zipped = [called |-> FALSE, a |-> 0, b |-> 0, panic |-> FALSE, len |-> 0]
  /\ cost = 0
  /\ tasks = <<>>
  /\ op_calls = <<>>

BridgeNext ==
  \/ for_each
  \/ \E i \in 1 .. Len(tasks) : bridge(i) \/ bridge_loop(i) \/ bridge_join(i)

BridgeSpec == BridgeInit /\ [][BridgeNext]_vars

\* The closures of a join are run by the pool, none of them left aside
\* for ever.
BridgeFairSpec == BridgeSpec /\ WF_vars(BridgeNext)

\* for_each of a filter or a filter_map over a slice: drive wraps the
\* consumer and drives the base.
FilterInit ==
  /\ PoolAtRest
  /\ root \in Pipelines(0)
  /\ filter_op \in SUBSET (0 .. len(root) - 1)
  /\ consumer \in {FilterConsumer(ForEachConsumer),
                   FilterMapConsumer(ForEachConsumer)}
  /\ vec = Vec(0)
  /\ leaves = <<root>>
  /\ last_split = [index |-> 0, of |-> NoProducer, left |-> NoProducer,
                   right |-> NoProducer]
  /\ zipped = [called |-> FALSE, a |-> 0, b |-> 0, panic |-> FALSE, len |-> 0]
  /\ cost = 0
  /\ tasks = <<>>
  /\ op_calls = <<>>

FilterSpec == FilterInit /\ [][BridgeNext]_vars

----------------------------------------------------------------------------
\* collect_into over the states of the parallel iterators: slices, adapters
\* over them, and a filter, whose predicate holds for the items in filter_op.
\* The cost a state reports is its length scaled by factors that are fixed
\* with THRESHOLD; the model lets it be any cost up to MaxCost.

FilterState(base) == [kind |-> "filter", base |-> base]

RECURSIVE state_len(_)
\* ParallelIteratorState::len: maximal_len and sparse of the ParallelLen.
state_len(s) ==
  IF IsSlice(s) THEN [maximal_len |-> s.len, sparse |-> FALSE]
  ELSE state_len(s.base)

\* ParallelIteratorState::split_at.
state_split_at(s, index) ==
  IF s.kind = "filter"
  THEN LET b == split_at(s.base, index) IN
       [left |-> FilterState(b.left), right |-> FilterState(b.right)]
  ELSE split_at(s, index)

RECURSIVE state_next(_)
\* ParallelIteratorState::next: <<item>> for Some(item) and <<>> for None,
\* and the state afterwards.
state_next(s) ==
  IF s.kind = "filter"
  THEN LET b == state_next(s.base) IN
       IF b.item = <<>> THEN [item |-> <<>>, rest |-> FilterState(b.rest)]
       ELSE IF filter_op_holds(b.item[1])
            THEN [item |-> b.item, rest |-> FilterState(b.rest)]
            ELSE state_next(FilterState(b.rest))
  ELSE IF len(s) = 0 THEN [item |-> <<>>, rest |-> s]
       ELSE [item |-> <<produce(s).item>>, rest |-> produce(s).rest]

RECURSIVE iterate(_)
\* The items sequential iteration of a state yields.
iterate(s) ==
  LET r == state_next(s) IN
  IF r.item = <<>> THEN <<>> ELSE r.item \o iterate(r.rest)

\* ParallelLen::left_cost(mid) and right_cost(mid): the ParallelLen of the
\* two halves (their cost is half the cost of the whole).
left_cost(plen, mid) == [maximal_len |-> mid, sparse |-> plen.sparse]
right_cost(plen, mid) ==
  [maximal_len |-> plen.maximal_len - mid, sparse |-> plen.sparse]

\* A split of the target that hands both halves the same place.
target_split_at_same(target, mid) == [left |-> target, right |-> target]

\* CollectTarget::split_at(mid).
target_split_at(target, mid) == [left |-> target, right |-> target + mid]

\* A call of collect_into_helper: the ParallelLen and state it is given, the
\* place of its target in the buffer, and the ptr of its for_each.
CollectTask(plen, halvings, state, target) ==
  [pc |-> "start", len |-> plen.maximal_len, sparse |-> plen.sparse,
   halvings |-> halvings, producer |-> state, target |-> target,
   ptr |-> target, left |-> 0, right |-> 0]

\* collect_into up to the call of collect_into_helper: truncate(0), reserve.
collect_into ==
  /\ vec.pc = "idle"
  /\ tasks = <<>>
  /\ \E c \in 0 .. MaxCost : cost' = c
  /\ LET plen == state_len(root) IN
     /\ vec' = [pc |-> "helper", len |-> 0,
                buf |-> [i \in 1 .. plen.maximal_len |->
                           [old |-> FALSE, writes |-> <<>>]],
                panicked |-> FALSE,
                drops |-> [i \in 1 .. plen.maximal_len |-> 0]]
     /\ tasks' = <<CollectTask(plen, 0, root, 0)>>
  /\ UNCHANGED <<pool, filter_op, consumer, root, leaves, last_split, zipped,
                 op_calls>>

\* collect_into_helper, up to the join or to the start of for_each.
collect_into_helper(i) ==
  LET t == tasks[i] IN
  /\ vec.pc = "helper"
  /\ t.pc = "start"
  /\ IF over_threshold(cost, t.halvings) /\ t.len > 1
     THEN LET mid == t.len \div 2
              plen == [maximal_len |-> t.len, sparse |-> t.sparse]
              s == state_split_at(t.producer, mid)
              tg == target_split_at(t.target, mid) IN
          tasks' = [tasks EXCEPT ![i].pc = "join",
                                 ![i].left = Len(tasks) + 1,
                                 ![i].right = Len(tasks) + 2]
                   \o <<CollectTask(left_cost(plen, mid), t.halvings + 1,
                                    s.left, tg.left),
                        CollectTask(right_cost(plen, mid), t.halvings + 1,
                                    s.right, tg.right)>>
     ELSE tasks' = [tasks EXCEPT ![i].pc = "loop"]
  /\ UNCHANGED <<pool, sinks, root, leaves, last_split, zipped, cost, op_calls>>

\* One item of state.for_each: ptr::write(ptr, item) and ptr.offset(1); when
\* the state has no item left the call of collect_into_helper returns.
collect_write(i) ==
  LET t == tasks[i]
      r == state_next(t.producer) IN
  /\ vec.pc = "helper"
  /\ t.pc = "loop"
  /\ IF r.item = <<>>
     THEN /\ tasks' = [tasks EXCEPT ![i].pc = "done"]
          /\ UNCHANGED vec
     ELSE /\ vec' = [vec EXCEPT !.buf[t.ptr + 1].writes = Append(@, r.item[1])]
          /\ tasks' = [tasks EXCEPT ![i].producer = r.rest,
                                    ![i].ptr = t.ptr + 1]
  /\ UNCHANGED <<pool, filter_op, consumer, root, leaves, last_split, zipped,
                 cost, op_calls>>

\* The return of join in collect_into_helper.
collect_join(i) ==
  LET t == tasks[i] IN
  /\ vec.pc = "helper"
  /\ t.pc = "join"
  /\ tasks[t.left].pc = "done"
  /\ tasks[t.right].pc = "done"
  /\ tasks' = [tasks EXCEPT ![i].pc = "done"]
  /\ UNCHANGED <<pool, sinks, root, leaves, last_split, zipped, cost, op_calls>>

\* collect_into after the helper: v.set_len(len.maximal_len).
collect_into_return ==
  /\ vec.pc = "helper"
  /\ tasks[1].pc = "done"
  /\ vec' = [vec EXCEPT !.pc = "returned", !.len = tasks[1].len]
  /\ UNCHANGED <<pool, filter_op, consumer, root, leaves, last_split, zipped,
                 cost, tasks, op_calls>>

\* The closure of a map, or the predicate of a filter, panics on the item a
\* for_each is about to hand over; the panic goes up through the joins and
\* through collect_into, past its set_len.
collect_unwind(i) ==
  LET t == tasks[i] IN
  /\ vec.pc = "helper"
  /\ t.pc = "loop"
  /\ root.kind \in {"map", "filter"}
  /\ state_len(t.producer).maximal_len > 0
  /\ tasks' = [tasks EXCEPT ![i].pc = "panicked"]
  /\ vec' = [vec EXCEPT !.pc = "unwound", !.panicked = TRUE]
  /\ UNCHANGED <<pool, filter_op, consumer, root, leaves, last_split, zipped,
                 cost, op_calls>>

\* The Vec goes out of scope after collect_into: Vec::drop drops its first
\* len elements and frees the buffer.
vec_drop ==
  /\ vec.pc \in {"unwound", "returned"}
  /\ vec' = [vec EXCEPT
               !.pc = "dropped",
               !.drops = [i \in 1 .. Len(vec.buf) |->
                            IF i <= vec.len THEN vec.drops[i] + 1
                                            ELSE vec.drops[i]]]
  /\ UNCHANGED <<pool, filter_op, consumer, root, leaves, last_split, zipped,
                 cost, tasks, op_calls>>

CollectInit ==
  /\ PoolAtRest
  /\ root \in Pipelines(1) \cup {FilterState(b) : b \in Pipelines(0)}
  /\ filter_op \in IF root.kind = "filter" THEN SUBSET (0 .. root.base.len - 1)
                                            ELSE {{}}
  /\ consumer = ForEachConsumer
  /\ vec \in {Vec(0), Vec(2)}
  /\ leaves = <<root>>
  /\ last_split = [index |-> 0, of |-> NoProducer, left |-> NoProducer,
                   right |-> NoProducer]
  /\ zipped = [called |-> FALSE, a |-> 0, b |-> 0, panic |-> FALSE, len |-> 0]
  /\ cost = 0
  /\ tasks = <<>>
  /\ op_calls = <<>>

CollectNext ==
  \/ collect_into
  \/ \E i \in 1 .. Len(tasks) :
       \/ collect_into_helper(i)
       \/ collect_write(i)
       \/ collect_join(i)
       \/ collect_unwind(i)
  \/ collect_into_return
  \/ vec_drop

CollectSpec == CollectInit /\ [][CollectNext]_vars

----------------------------------------------------------------------------
\* Chunks, mutable chunks and windows of a slice.  An item is a sub-slice,
\* given by the place of its first element and its length.  Indexing a
\* slice past its end ([..i], [i..] or split_at(i) with i > len) panics.

ChunksProducer(kind, size, slice) ==
  [kind |-> kind, size |-> size, slice |-> slice]

IsChunks(p) == p.kind \in {"chunks", "chunks_mut"}

\* ChunksIter::len and ChunksMutIter::len.
chunks_len(p) == (p.slice.len + (p.size - 1)) \div p.size

\* WindowsIter::len: slice.len().saturating_sub(window_size - 1).
windows_len(p) ==
  IF p.slice.len >= p.size - 1 THEN p.slice.len - (p.size - 1) ELSE 0

sized_len(p) == IF IsChunks(p) THEN chunks_len(p) ELSE windows_len(p)

RECURSIVE chunks(_, _)
\* slice.chunks(size) and slice.chunks_mut(size), in order.
chunks(slice, size) ==
  IF slice.len = 0 THEN <<>>
  ELSE LET n == min(size, slice.len) IN
       <<[ptr |-> slice.ptr, len |-> n]>>
       \o chunks(SliceProducer(slice.kind, slice.ptr + n, slice.len - n), size)

\* slice.windows(size), in order.
windows(slice, size) ==
  [i \in 1 .. (IF slice.len >= size THEN slice.len - size + 1 ELSE 0) |->
     [ptr |-> slice.ptr + i - 1, len |-> size]]

\* Producer::into_iter of the three producers.
sized_items(p) ==
  IF IsChunks(p) THEN chunks(p.slice, p.size) ELSE windows(p.slice, p.size)

\* SliceChunksProducer::split_at and SliceChunksMutProducer::split_at.
chunks_split_at(p, index) ==
  LET elem_index == index * p.size IN
  IF elem_index > p.slice.len
  THEN [panicked |-> TRUE, left |-> NoProducer, right |-> NoProducer]
  ELSE LET s == slice_split_at(p.slice, elem_index) IN
       [panicked |-> FALSE,
        left |-> ChunksProducer(p.kind, p.size, s.left),
        right |-> ChunksProducer(p.kind, p.size, s.right)]

\* SliceWindowsProducer::split_at.
windows_split_at(p, index) ==
  IF index + (p.size - 1) > p.slice.len \/ index > p.slice.len
  THEN [panicked |-> TRUE, left |-> NoProducer, right |-> NoProducer]
  ELSE [panicked |-> FALSE,
        left |-> ChunksProducer(p.kind, p.size,
                   SliceProducer(p.slice.kind, p.slice.ptr,
                                 index + (p.size - 1))),
        right |-> ChunksProducer(p.kind, p.size,
                   SliceProducer(p.slice.kind, p.slice.ptr + index,
                                 p.slice.len - index))]

\* split_at(index) on one of the producers, for any index up to its length;
\* a panic leaves the producers as they were.
sized_split_leaf ==
  /\ Len(leaves) < MaxLeaves
  /\ \E i \in 1 .. Len(leaves) : \E index \in 0 .. sized_len(leaves[i]) :
       LET s == IF IsChunks(leaves[i]) THEN chunks_split_at(leaves[i], index)
                ELSE windows_split_at(leaves[i], index) IN
       /\ leaves' = IF s.panicked THEN leaves
                    ELSE SubSeq(leaves, 1, i - 1) \o <<s.left, s.right>>
                         \o SubSeq(leaves, i + 1, Len(leaves))
       /\ last_split' = [index |-> index, of |-> leaves[i], left |-> s.left,
                         right |-> s.right, panicked |-> s.panicked]
  /\ UNCHANGED <<pool, sinks, root, zipped, cost, tasks, op_calls>>

\* par_chunks, par_chunks_mut and par_windows of a slice.
SizedInit ==
  /\ PoolAtRest
  /\ NoSinks
  /\ \E size \in 1 .. MaxSize : \E n \in 0 .. MaxLen :
       root \in {ChunksProducer("chunks", size, SliceProducer("slice", 0, n)),
                 ChunksProducer("chunks_mut", size, SliceProducer("slice_mut", 0, n)),
                 ChunksProducer("windows", size, SliceProducer("slice", 0, n))}
  /\ leaves = <<root>>
  /\ last_split = [index |-> 0, of |-> NoProducer, left |-> NoProducer,
                   right |-> NoProducer, panicked |-> FALSE]
  /\ zipped = [called |-> FALSE, a |-> 0, b |-> 0, panic |-> FALSE, len |-> 0]
  /\ cost = 0
  /\ tasks = <<>>
  /\ op_calls = <<>>

SizedNext == sized_split_leaf

SizedSpec == SizedInit /\ [][SizedNext]_vars

----------------------------------------------------------------------------
\* One call of steal_work on pools of every size, its peers pushing and
\* popping while it goes round.

\* The deques of a pool of n workers after the jobs that have an owner were
\* pushed on the owner's deque, in the order of their numbers.
RECURSIVE pushed(_, _, _)
pushed(n, owner, j) ==
  IF j = 0
  THEN [deque |-> [w \in 0 .. (n - 1) |->
                     [top |-> NULL_JOB, bottom |-> NULL_JOB]],
        previous |-> [k \in Jobs |-> NULL_JOB],
        next |-> [k \in Jobs |-> NULL_JOB]]
  ELSE LET f == pushed(n, owner, j - 1) IN
       IF owner[j] = NoThread
       THEN f
       ELSE LET r == push(f.deque[owner[j]], f.previous, f.next, j) IN
            [deque |-> [f.deque EXCEPT ![owner[j]] = r.deque],
             previous |-> r.previous,
             next |-> r.next]

StealInit ==
  /\ threads_at_work = 0
  /\ injected_jobs = <<>>
  /\ state_lock = NoThread
  /\ work_available = {}
  /\ primed = [w \in Workers |-> FALSE]
  /\ worker_thread_state = [t \in Threads |-> NULL_WORKER]
  /\ latch = [j \in Jobs |-> FALSE]
  /\ stack = [t \in Threads |->
                IF t \in Workers THEN <<Frame("main_loop", "startup", NULL_JOB)>>
                                 ELSE <<Frame("closure", "root", NULL_JOB)>>]
  /\ nextJob = 1
  /\ max_joins = 0
  /\ hist = [j \in Jobs |-> NoHist]
  /\ Constructed
  /\ NoPipeline
  /\ \E n \in 1 .. MaxThreads :
       \E index \in 0 .. (n - 1) :
         \E owner \in [Jobs -> (0 .. (n - 1)) \cup {NoThread}] :
           LET f == pushed(n, owner, MaxJobs) IN
           /\ deque = f.deque
           /\ previous = f.previous
           /\ next = f.next
           /\ deque_lock = [w \in 0 .. (n - 1) |-> NoThread]
           /\ thief = [NoThief EXCEPT
                         !.num_threads = n,
                         !.index = index,
                         !.unpushed = {j \in Jobs : owner[j] = NoThread}]

\* let start = rand::random::<usize>() % num_threads, and the chain built.
steal_work_call ==
  /\ thief.pc = "idle"
  /\ \E start \in 0 .. (thief.num_threads - 1) :
       thief' = [thief EXCEPT
                   !.pc = "chain",
                   !.start = start,
                   !.victims = steal_chain(start, thief.index,
                                           thief.num_threads)]
  /\ UNCHANGED <<registry, thread_state, deques, latch, stack, nextJob,
                 max_joins, hist, construction, pipeline>>

\* One turn of .filter_map(|i| steal_work_from(registry, i)).next(): the
\* chain is at its end and next() gives None, or steal_work_from runs on the
\* deque the chain gives, under that deque's lock from start to end.
steal_work_next ==
  /\ thief.pc = "chain"
  /\ IF thief.victims = <<>>
     THEN /\ thief' = [thief EXCEPT !.pc = "returned", !.ret = NULL_JOB]
          /\ UNCHANGED <<deque, previous>>
     ELSE LET i == Head(thief.victims)
              r == steal_work_from(deque[i], previous, next)
              attempts == Append(thief.attempts,
                                 [victim |-> i, job |-> r.job]) IN
          /\ deque_lock[i] = NoThread
          /\ deque' = [deque EXCEPT ![i] = r.deque]
          /\ previous' = r.previous
          /\ thief' = IF r.job # NULL_JOB
                      THEN [thief EXCEPT !.pc = "returned",
                                         !.ret = r.job,
                                         !.victims = <<>>,
                                         !.attempts = attempts]
                      ELSE [thief EXCEPT !.victims = Tail(thief.victims),
                                         !.attempts = attempts]
  /\ UNCHANGED <<registry, thread_state, deque_lock, next, latch, stack,
                 nextJob, max_joins, hist, construction, pipeline>>

\* A peer of the caller pushes a job while steal_work goes round.
peer_push(w) ==
  /\ thief.pc = "chain"
  /\ w # thief.index
  /\ deque_lock[w] = NoThread
  /\ \E job \in thief.unpushed :
       LET r == push(deque[w], previous, next, job) IN
       /\ deque' = [deque EXCEPT ![w] = r.deque]
       /\ previous' = r.previous
       /\ next' = r.next
       /\ thief' = [thief EXCEPT !.unpushed = @ \ {job}]
  /\ UNCHANGED <<registry, thread_state, deque_lock, latch, stack, nextJob,
                 max_joins, hist, construction, pipeline>>

\* A peer of the caller pops the job at the top of its deque.
peer_pop(w) ==
  /\ thief.pc = "chain"
  /\ w # thief.index
  /\ deque_lock[w] = NoThread
  /\ deque[w].top # NULL_JOB
  /\ LET r == pop(deque[w], previous, next, deque[w].top) IN
     /\ deque' = [deque EXCEPT ![w] = r.deque]
     /\ next' = r.next
  /\ UNCHANGED <<registry, thread_state, deque_lock, previous, latch, stack,
                 nextJob, max_joins, hist, construction, pipeline, thief>>

StealNext ==
  \/ steal_work_call
  \/ steal_work_next
  \/ \E w \in 0 .. (thief.num_threads - 1) : peer_push(w)
  \/ \E w \in 0 .. (thief.num_threads - 1) : peer_pop(w)

StealSpec == StealInit /\ [][StealNext]_vars

TypeOK ==
  /\ threads_at_work \in 0 .. NumWorkers
  /\ state_lock \in Threads \cup {NoThread}
  /\ \A w \in Workers : deque_lock[w] \in Threads \cup {NoThread}

----------------------------------------------------------------------------
\* What the state holds of a job.

Range(q) == {q[i] : i \in 1 .. Len(q)}

RECURSIVE Chain(_, _, _)
\* The jobs reached from job j by following the links `link`, at most n.
Chain(link, j, n) ==
  IF j = NULL_JOB \/ n = 0 THEN <<>>
  ELSE <<j>> \o Chain(link, link[j], n - 1)

\* The jobs of deque w from the top downwards, and from the bottom upwards.
FromTop(w) == Chain(previous, deque[w].top, MaxJobs + 1)
FromBottom(w) == Chain(next, deque[w].bottom, MaxJobs + 1)

\* The deques job j is linked into.
InDeque(j) == {w \in Workers : j \in Range(FromTop(w)) \cup Range(FromBottom(w))}

\* Some worker has job j in hand (stolen, not yet executing).
Held(j) == \E t \in Threads : \E i \in 1 .. Len(stack[t]) : stack[t][i].held = j

\* Some thread is executing job j (Job::execute has not set the latch yet).
Executing(j) ==
  \E t \in Threads : \E i \in 1 .. Len(stack[t]) :
     stack[t][i].op = "closure" /\ stack[t][i].pc = "job" /\ stack[t][i].job = j

Removals(j) == hist[j].steals + (IF hist[j].popped = "true" THEN 1 ELSE 0)

----------------------------------------------------------------------------
\* C1: for a job pushed by join, pop reports true iff the job was not
\* stolen; a popped job is run by the thread that called join and a stolen
\* one by its thief; the job is run at most once, and exactly once by the
\* time join returns.
C1_TargetedPop ==
  \A j \in Jobs : hist[j].pushes > 0 =>
    /\ hist[j].popped = "true" =>
         /\ hist[j].steals = 0
         /\ \A i \in 1 .. Len(hist[j].execs) : hist[j].execs[i] = "caller"
    /\ hist[j].popped = "false" =>
         /\ hist[j].steals > 0
         /\ \A i \in 1 .. Len(hist[j].execs) : hist[j].execs[i] = "thief"
    /\ Len(hist[j].execs) <= 1
    /\ hist[j].returned => Len(hist[j].execs) = 1 /\ hist[j].popped # "none"

C1_Witness ==
  \E j, k \in Jobs :
    /\ hist[j].returned /\ hist[j].popped = "true" /\ hist[j].execs = <<"caller">>
    /\ hist[k].returned /\ hist[k].popped = "false" /\ hist[k].execs = <<"thief">>

\* C2: a join that has returned has both closures terminated, and its job
\* is in no deque, not in injected_jobs, in no worker's hand and not being
\* executed.
C2_JoinCompleteness ==
  \A j \in Jobs : hist[j].returned =>
    /\ hist[j].aDone /\ hist[j].bDone
    /\ InDeque(j) = {}
    /\ j \notin Range(injected_jobs)
    /\ ~Held(j)
    /\ ~Executing(j)

C2_Witness ==
  \E j, k \in Jobs :
    /\ hist[j].returned /\ hist[j].execs = <<"thief">>
    /\ hist[k].returned /\ hist[k].execs = <<"handed">>

C5_InjectedOnce ==
  \A j \in Jobs :
    /\ hist[j].handed <= 1
    /\ hist[j].handed
         + Cardinality({i \in 1 .. Len(injected_jobs) : injected_jobs[i] = j})
       = hist[j].injects

C5_Witness ==
  \E j, k \in Jobs :
    /\ j # k
    /\ hist[j].handed = 1
    /\ hist[k].handed = 1

\* C7: a thread that holds a deque lock holds only that one, does not hold
\* the registry state mutex and is inside push, pop or steal_work_from; a
\* thread that holds the state mutex is inside wait_for_work, start_working
\* or inject; so no lock is held by a thread that runs a closure or a job,
\* or that is about to take a deque lock.
C7_LockDiscipline ==
  \A t \in Threads :
    LET held == {w \in Workers : deque_lock[w] = t} IN
    /\ Cardinality(held) <= 1
    /\ held # {} => /\ state_lock # t
                    /\ Top(t).pc \in {"push_cs", "pop_cs", "steal_cs"}
    /\ state_lock = t => Top(t).pc \in {"wfw_cs", "sw_cs", "inject_cs"}
    /\ Top(t).op = "closure" => held = {} /\ state_lock # t
    /\ Top(t).pc \in {"steal_work", "steal_lock", "push_lock", "pop_lock"}
         => held = {} /\ state_lock # t

C7_Witness ==
  \E t, u \in Workers : \E e \in Externals :
    /\ t # u
    /\ deque_lock[u] = t
    /\ Top(u).op = "closure"
    /\ state_lock = e

\* C8: a job is linked into at most one deque and at most once, is pushed
\* at most once, is removed (popped or stolen) at most once, and is in no
\* deque after its removal.
C8_DequeOwnership ==
  /\ \A j \in Jobs :
       /\ Cardinality(InDeque(j)) <= 1
       /\ hist[j].pushes <= 1
       /\ Removals(j) <= 1
       /\ Removals(j) = 1 => InDeque(j) = {}
  /\ \A w \in Workers :
       /\ Cardinality(Range(FromTop(w))) = Len(FromTop(w))
       /\ Cardinality(Range(FromBottom(w))) = Len(FromBottom(w))

C8_Witness ==
  \E j, k \in Jobs :
    /\ j # k
    /\ hist[j].steals = 1
    /\ InDeque(k) # {}

\* C9 as stated: with the deque lock free, an empty deque has both ends
\* null, and top.previous and bottom.next are null.
C9_AsStated ==
  \A w \in Workers : deque_lock[w] = NoThread =>
    /\ (deque[w].top = NULL_JOB) <=> (deque[w].bottom = NULL_JOB)
    /\ deque[w].top # NULL_JOB => previous[deque[w].top] = NULL_JOB
    /\ deque[w].bottom # NULL_JOB => next[deque[w].bottom] = NULL_JOB

\* C9 amended: with the deque lock free, an empty deque has both ends null,
\* and top.next and bottom.previous are null (`previous` of the top job is
\* the job below it, `next` of the bottom job the job above it).
C9_DequeEnds ==
  \A w \in Workers : deque_lock[w] = NoThread =>
    /\ (deque[w].top = NULL_JOB) <=> (deque[w].bottom = NULL_JOB)
    /\ deque[w].top # NULL_JOB => next[deque[w].top] = NULL_JOB
    /\ deque[w].bottom # NULL_JOB => previous[deque[w].bottom] = NULL_JOB

C9_Witness ==
  \E w \in Workers :
    /\ deque_lock[w] = NoThread
    /\ deque[w].top # NULL_JOB
    /\ deque[w].bottom # NULL_JOB
    /\ deque[w].top # deque[w].bottom

\* C10: a job that is linked into a deque, is in injected_jobs, is in a
\* worker's hand or is being executed belongs to a join whose frame is
\* still on the stack of the thread that called it.
C10_NoDangling ==
  \A j \in Jobs :
    (InDeque(j) # {} \/ j \in Range(injected_jobs) \/ Held(j) \/ Executing(j))
      => JoinThread(j) # NoThread /\ ~hist[j].returned

C10_Witness ==
  \E j, k \in Jobs :
    /\ Held(j) /\ hist[j].popped = "false"
    /\ Executing(k) /\ ~hist[k].aDone
    /\ k # j

\* C3: every join that was called eventually returns.
C3_JoinReturns ==
  \A j \in Jobs : (nextJob > j) ~> hist[j].returned

C3_Witness ==
  \E j, k \in Jobs :
    /\ hist[j].returned /\ hist[j].popped = "false"
    /\ hist[k].returned /\ hist[k].injects = 1

\* C6: every job in injected_jobs is eventually executed to its end by a
\* worker that took it from injected_jobs.
C6_InjectedRuns ==
  \A j \in Jobs :
    (j \in Range(injected_jobs)) ~> (hist[j].handed = 1 /\ hist[j].bDone)

C6_Witness ==
  \E j \in Jobs :
    /\ hist[j].handed = 1 /\ hist[j].bDone
    /\ \E w \in Workers : \E i \in 1 .. Len(stack[w]) :
          stack[w][i].op = "main_loop" /\ stack[w][i].pc = "cv_wait"

\* C11 as stated: a job that was stolen belongs to a join whose A has begun.
C11_AsStated ==
  \A j \in Jobs : hist[j].steals > 0 => hist[j].a # "none"

\* C11: push-then-execute.  When A of a join on a worker has begun, the job
\* of B has been pushed, and it is in the deque of the caller unless it was
\* removed since; a steal only ever takes a pushed job (it may take it
\* before A has begun).
C11_PushThenExecute ==
  \A j \in Jobs :
    /\ (hist[j].a # "none" /\ hist[j].injects = 0) =>
         /\ hist[j].pushes = 1
         /\ Removals(j) = 0 => InDeque(j) = {JoinThread(j)}
    /\ hist[j].steals > 0 => hist[j].pushes = 1

C11_Witness ==
  \E j \in Jobs :
    /\ hist[j].pushes = 1 /\ hist[j].steals = 1 /\ hist[j].a = "none"
    /\ \E t \in Workers : At(t, "join", "runA") /\ Top(t).job = j

\* The step in which the job that worker w executes from its main loop ends
\* in a failure.
FailsOn(w) ==
  /\ Len(stack[w]) = 2
  /\ At(w, "closure", "job")
  /\ stack[w][1].op = "main_loop"
  /\ ~hist[Top(w).job].bDone
  /\ hist'[Top(w).job].bDone /\ hist'[Top(w).job].failed

\* Worker w is in its main loop, about to call wait_for_work with
\* was_active = true, or inside its first critical section.
BackInLoop(w) ==
  /\ Len(stack[w]) = 1
  /\ Top(w).op = "main_loop" /\ Top(w).pc \in {"wfw_lock", "wfw_cs"}
  /\ Top(w).was_active

C13_CurrentIndex ==
  /\ [](/\ \A e \in Externals : current(e) = NULL_WORKER
        /\ \A w \in Workers :
             /\ Top(w).pc # "panicked"
             /\ stack[w][1].pc # "startup" =>
                  /\ current(w) = w
                  /\ current(w) \in 0 .. (NumWorkers - 1)
                  /\ \A v \in Workers \ {w} : current(v) # current(w))
  /\ [][\A t \in Threads :
          current(t) # NULL_WORKER =>
            worker_thread_state'[t] = worker_thread_state[t]]_vars

C13_Witness ==
  \E w, v \in Workers : \E e \in Externals :
    /\ w # v
    /\ current(w) = w /\ current(v) = v
    /\ At(w, "closure", "job") /\ At(v, "closure", "job")
    /\ At(e, "closure", "A") /\ current(e) = NULL_WORKER

C15_InitializedOnce ==
  (\A c \in Callers : caller[c].api = "get_registry") =>
    /\ registries <= 1
    /\ \A c \in Callers :
         /\ caller[c].err = "none"
         /\ caller[c].pc \in {"returned", "wait_until_primed", "primed"} =>
              /\ registries = 1
              /\ caller[c].ret = 1 /\ caller[c].ret = the_registry
              /\ spawned = Workers
              /\ once = "done"

C15_Witness ==
  \E c, d \in Callers :
    /\ c # d
    /\ caller[c].api = "get_registry" /\ caller[d].api = "get_registry"
    /\ caller[c].pc = "returned" /\ caller[d].pc = "returned"
    /\ caller[c].registry = 1 /\ caller[d].registry = NoRegistry
    /\ caller[c].ret = caller[d].ret /\ caller[c].ret = 1

\* The registry that thread c has got from its call is complete.
HasRegistry(c) ==
  caller[c].pc \in {"returned", "wait_until_primed", "primed"}
    /\ caller[c].ret # NoRegistry

\* C16 as stated: when construction has returned the registry, every worker
\* of it has set its primed latch.
C16_AsStated ==
  \A c \in Callers : HasRegistry(c) =>
    \A w \in 0 .. (num_threads(c) - 1) : primed[w]

\* C16: when construction has returned the registry, every worker of it has
\* been spawned (and may not have set primed yet); when wait_until_primed
\* has returned, every worker has set its primed latch.
C16_PrimedAfterWait ==
  \A c \in Callers :
    /\ HasRegistry(c) => spawned = 0 .. (num_threads(c) - 1)
    /\ caller[c].pc = "primed" =>
         \A w \in 0 .. (num_threads(c) - 1) : primed[w]

C16_Witness ==
  \E c, d \in Callers :
    /\ caller[c].pc = "primed" /\ num_threads(c) = NumWorkers
    /\ \A w \in Workers : primed[w]
    /\ caller[d].pc = "wait_until_primed" /\ caller[d].index = 1

\* C17: for a producer of n items (a slice or mutable slice, under any map
\* and enumerate adapters) and an index k with 0 <= k <= n, split_at(k)
\* gives a left producer of exactly k items and a right one of n - k, and
\* the items of the left followed by those of the right are the items of
\* the unsplit producer, position by position.
C17_IndexPreservation ==
  last_split.of # NoProducer =>
    LET n == len(last_split.of)
        k == last_split.index
        l == items(last_split.left)
        r == items(last_split.right) IN
    /\ Len(l) = k /\ len(last_split.left) = k
    /\ Len(r) = n - k /\ len(last_split.right) = n - k
    /\ l \o r = items(last_split.of)

C17_Witness ==
  /\ last_split.of.kind = "map"
  /\ last_split.of.base.kind = "enumerate"
  /\ last_split.of.base.base.kind = "slice_mut"
  /\ last_split.of.base.offset = 1
  /\ len(last_split.of) = 3
  /\ last_split.index = 2

\* C18: for an enumerate over a base P of n items and any tree of split_at
\* calls, the items of the leaves, left to right, are (0, P[0]), ...,
\* (n-1, P[n-1]), each once; and a split at k gives the left half the
\* offset of the whole and the right half that offset plus k.
C18_EnumerateSplit ==
  /\ root.kind = "enumerate" =>
       LET P == items(root.base) IN
       all_items(leaves) = [i \in 1 .. Len(P) |-> [index |-> i - 1, item |-> P[i]]]
  /\ last_split.of.kind = "enumerate" =>
       /\ last_split.left.offset = last_split.of.offset
       /\ last_split.right.offset = last_split.of.offset + last_split.index

C18_Witness ==
  /\ root.kind = "enumerate" /\ root.base.kind = "map"
  /\ len(root) = MaxLen
  /\ Len(leaves) = 3
  /\ \A i \in 1 .. 3 : len(leaves[i]) > 0
  /\ leaves[3].offset = 3

C20_ForEachCompleteness ==
  /\ \A i, j \in 1 .. Len(op_calls) : i # j => op_calls[i] # op_calls[j]
  /\ Range(op_calls) \subseteq Range(items(root))
  /\ (tasks # <<>> /\ tasks[1].pc = "done") =>
       /\ Len(op_calls) = len(root)
       /\ Range(op_calls) = Range(items(root))

C20_Witness ==
  /\ tasks # <<>> /\ tasks[1].pc = "done"
  /\ Len(tasks) = 5
  /\ root.kind = "map" /\ len(root) = 3
  /\ op_calls # items(root)

\* C21: for a pipeline of exactly n items (a slice, or a map or enumerate
\* over one) and whatever splitting is done, collect_into(v) drops what v
\* held and leaves v with length n, its element at position i being the
\* i-th item of the sequential iteration, written once; the targets of the
\* two sides of every split are disjoint ranges that make up the range of
\* the parent.
C21_CollectInto ==
  /\ (vec.pc = "returned" /\ root.kind # "filter") =>
       /\ vec.len = len(root)
       /\ Len(vec.buf) = len(root)
       /\ \A i \in 1 .. vec.len :
            vec.buf[i] = [old |-> FALSE, writes |-> <<iterate(root)[i]>>]
  /\ \A i \in 1 .. Len(tasks) :
       tasks[i].pc \in {"join", "done"} /\ tasks[i].left # 0 =>
         LET t == tasks[i]
             l == tasks[t.left]
             r == tasks[t.right] IN
         /\ l.target = t.target
         /\ r.target = l.target + l.len
         /\ r.target + r.len = t.target + t.len

C21_Witness ==
  /\ vec.pc = "returned"
  /\ root.kind = "map" /\ len(root) = 4
  /\ Len(tasks) = 7
  /\ vec.buf[4].writes = <<[map_op |-> 3]>>

\* C22 as stated: for every pipeline collect_into accepts, when it returns
\* either each of the maximal_len reserved slots was written exactly once,
\* or the length of the vector is the number of slots written.
C22_AsStated ==
  vec.pc = "returned" =>
    \/ \A i \in 1 .. Len(vec.buf) : Len(vec.buf[i].writes) = 1
    \/ vec.len = Cardinality({i \in 1 .. Len(vec.buf) : vec.buf[i].writes # <<>>})

\* C23: for any slice and predicate and whatever splitting the bridge does,
\* the base consumer of a filter receives only items the predicate holds
\* for (of a filter_map: only the Some values), each at most once, and when
\* the drive returns it has received exactly those, each once; the upper
\* bound of the filter is the length of the base.
C23_FilterCorrectness ==
  LET passing == IF consumer.kind = "filter" THEN filter_op
                 ELSE {[mapped |-> x] : x \in filter_op} IN
  /\ \A i, j \in 1 .. Len(op_calls) : i # j => op_calls[i] # op_calls[j]
  /\ \A i \in 1 .. Len(op_calls) : op_calls[i] \in passing
  /\ (tasks # <<>> /\ tasks[1].pc = "done") =>
       /\ {op_calls[i] : i \in 1 .. Len(op_calls)} = passing
       /\ Len(op_calls) = Cardinality(filter_op)
  /\ upper_bound([kind |-> consumer.kind, base |-> root]) = Len(items(root))

C23_Witness ==
  /\ tasks # <<>> /\ tasks[1].pc = "done"
  /\ Len(tasks) = 7
  /\ consumer.kind = "filter_map"
  /\ filter_op = {0, 3}
  /\ op_calls = <<[mapped |-> 3], [mapped |-> 0]>>

\* C26 as stated: for every ParallelIteratorState (a slice, a mutable slice,
\* a filter over one) and every state split_at makes of it, if len() says
\* sparse is false then sequential iteration yields exactly maximal_len
\* items.
C26_AsStated ==
  \A i \in 1 .. Len(tasks) :
    LET s == tasks[i].producer IN
    (tasks[i].pc = "start" /\ ~state_len(s).sparse) =>
      Len(iterate(s)) = state_len(s).maximal_len

\* C24 as stated: for a slice of length L and a chunk size n >= 1 the
\* reported length is ceil(L/n), and for every k with 0 <= k <= ceil(L/n)
\* split_at(k) does not fail, splits the slice at element k*n, gives a left
\* side of exactly k chunks, and the chunks of the left followed by those
\* of the right are the chunks of the whole.
C24_AsStated ==
  /\ IsChunks(root) =>
       /\ chunks_len(root) = Len(chunks(root.slice, root.size))
       /\ chunks_len(root) * root.size >= root.slice.len
       /\ (chunks_len(root) - 1) * root.size < root.slice.len \/ root.slice.len = 0
  /\ IsChunks(last_split.of) =>
       /\ ~last_split.panicked
       /\ last_split.left.slice.len = last_split.index * last_split.of.size
       /\ Len(sized_items(last_split.left)) = last_split.index
       /\ sized_items(last_split.left) \o sized_items(last_split.right)
            = sized_items(last_split.of)

\* C25 as stated: for a slice of length L and a window size n >= 1 the
\* reported length is L - n + 1 (a length: 0 when L < n - 1), and for every k from 0 to the reported
\* length split_at(k) does not fail, gives the left slice [0, k + n - 1) and
\* the right slice [k, L), a left side of exactly k windows, and the
\* windows of the left followed by those of the right are the windows of
\* the whole.
C25_AsStated ==
  /\ root.kind = "windows" =>
       windows_len(root) = IF root.slice.len >= root.size - 1
                           THEN root.slice.len - root.size + 1 ELSE 0
  /\ last_split.of.kind = "windows" =>
       /\ ~last_split.panicked
       /\ last_split.left.slice.ptr = last_split.of.slice.ptr
       /\ last_split.left.slice.len = last_split.index + last_split.of.size - 1
       /\ last_split.right.slice.ptr = last_split.of.slice.ptr + last_split.index
       /\ last_split.right.slice.len = last_split.of.slice.len - last_split.index
       /\ Len(sized_items(last_split.left)) = last_split.index
       /\ sized_items(last_split.left) \o sized_items(last_split.right)
            = sized_items(last_split.of)

\* A worker makes the step of wait_for_work that it makes with the state
\* lock held.
WaitForWorkStep(w) ==
  /\ At(w, "main_loop", "wfw_cs")
  /\ stack'[w] # stack[w]

\* C27: wait_for_work blocks on work_available exactly when, after its own
\* optional decrement, injected_jobs is empty and threads_at_work is 0; with
\* injected_jobs empty and threads_at_work > 0 it returns none without
\* blocking; and whenever a worker is blocked on the condition variable and
\* not yet notified, threads_at_work is 0 and injected_jobs is empty.
C27_BlocksOnlyWhenIdle ==
  /\ [][\A w \in Workers : WaitForWorkStep(w) =>
          LET taw == IF Top(w).was_active THEN threads_at_work - 1
                                          ELSE threads_at_work IN
          /\ (w \in work_available') <=> (injected_jobs = <<>> /\ taw = 0)
          /\ (w \in work_available') <=> (stack'[w][1].pc = "cv_wait")
          /\ (injected_jobs = <<>> /\ taw > 0) =>
               /\ stack'[w] = <<[stack'[w][1] EXCEPT !.pc = "steal_work"]>>
               /\ threads_at_work' = taw
               /\ state_lock' = NoThread]_vars
  /\ [](work_available # {} => threads_at_work = 0 /\ injected_jobs = <<>>)

C27_Witness ==
  \E w, u \in Workers :
    /\ w \in work_available
    /\ At(u, "main_loop", "cv_wait")
    /\ u \notin work_available
    /\ \E j \in Jobs : hist[j].bDone

C30_EndDiscipline ==
  /\ [][\A w \in Workers :
          LET old == FromBottom(w)
              new == FromBottom(w)' IN
          new # old =>
            \/ \E j \in Jobs : /\ new = Append(old, j)
                                /\ hist'[j].pushes = hist[j].pushes + 1
            \/ /\ old # <<>> /\ new = Tail(old)
               /\ hist'[Head(old)].steals = hist[Head(old)].steals + 1
            \/ /\ old # <<>> /\ new = SubSeq(old, 1, Len(old) - 1)
               /\ hist[old[Len(old)]].popped = "none"
               /\ hist'[old[Len(old)]].popped = "true"]_vars
  /\ [][\A t \in Workers :
          (Top(t).pc = "steal_cs" /\ stack'[t] # stack[t]) =>
            LET v == Head(Top(t).victims)
                old == FromBottom(v)
                new == Chain(next', deque'[v].bottom, MaxJobs + 1) IN
            IF old = <<>>
            THEN /\ UNCHANGED <<deque, previous, next, hist>>
                 /\ Len(stack'[t]) = Len(stack[t])
                 /\ stack'[t][Len(stack[t])].held = Top(t).held
            ELSE /\ new = Tail(old)
                 /\ hist'[Head(old)].steals = hist[Head(old)].steals + 1]_vars
  /\ [][\A w \in Workers :
          (At(w, "join", "pop_cs") /\ stack'[w] # stack[w]) =>
            LET old == FromBottom(w) IN
            IF old # <<>> /\ old[Len(old)] = Top(w).job
            THEN /\ hist'[Top(w).job].popped = "true"
                 /\ FromBottom(w)' = SubSeq(old, 1, Len(old) - 1)
            ELSE /\ hist'[Top(w).job].popped = "false"
                 /\ UNCHANGED <<deque, previous, next>>]_vars

C30_Witness ==
  \E j, k \in Jobs : \E w \in Workers :
    /\ hist[j].steals = 1
    /\ next[j] = k
    /\ FromBottom(w) = <<k>>
    /\ hist[k].pushes = 1


\* C29: steal_work(index) on a pool of N workers, whatever the random start in
\* [0, N): the deques it attempts are, in this order, start, start+1, ..., N-1,
\* 0, ..., start-1 with the caller's own left out; no deque is attempted
\* twice; every attempt before the last one found its deque empty; a job is
\* returned only as the result of the last attempt; and None is returned only
\* after each of the N-1 other deques was attempted and found empty (with
\* N = 1 there is no attempt and the result is None).
C29_RotatingOrder ==
  LET n == thief.num_threads
      a == thief.attempts
      pos == (thief.index - thief.start + n) % n
      expected == [i \in 1 .. (n - 1) |->
                     (thief.start + i - 1 + (IF i - 1 >= pos THEN 1 ELSE 0)) % n]
  IN
  thief.pc # "idle" =>
    /\ Len(a) <= n - 1
    /\ \A i \in 1 .. Len(a) : a[i].victim = expected[i]
    /\ \A i \in 1 .. Len(a) : a[i].victim # thief.index
    /\ \A i, j \in 1 .. Len(a) : i # j => a[i].victim # a[j].victim
    /\ \A i \in 1 .. (Len(a) - 1) : a[i].job = NULL_JOB
    /\ thief.pc = "chain" => \A i \in 1 .. Len(a) : a[i].job = NULL_JOB
    /\ thief.pc = "returned" =>
         IF thief.ret # NULL_JOB
         THEN Len(a) >= 1 /\ a[Len(a)].job = thief.ret
         ELSE /\ {a[i].victim : i \in 1 .. Len(a)}
                   = (0 .. (n - 1)) \ {thief.index}
              /\ \A i \in 1 .. Len(a) : a[i].job = NULL_JOB
    /\ (n = 1 /\ thief.pc = "returned") => thief.ret = NULL_JOB /\ a = <<>>

\* The chain wrapped round and skipped its caller: of four workers, worker 3
\* started at 2, found deques 2 and 0 empty and stole from deque 1.
C29_Witness ==
  /\ thief.pc = "returned"
  /\ thief.num_threads = 4
  /\ thief.index = 3
  /\ thief.start = 2
  /\ Len(thief.attempts) = 3
  /\ thief.ret # NULL_JOB

\* C31: bridge(len, cost, producer, consumer), for every len >= 0: every
\* call of bridge that splits has len >= 2 and hands mid = len / 2 to the
\* left and len - mid to the right, with 0 < mid < len; the len of the calls
\* that have not split add up to the len of the first call; a call that
\* does not split calls start once, then produce exactly len times, then
\* complete once, and hands each item it produced to consume once; the
\* result of a call that split is reduce(left result, right result), so that
\* the first call returns the producer's items in their order; and the first
\* call returns.
C31_BridgeContract ==
  /\ [](LET RECURSIVE unsplit_len(_)
             unsplit_len(k) ==
               IF k = 0 THEN 0
               ELSE unsplit_len(k - 1)
                      + (IF tasks[k].left = 0 THEN tasks[k].len ELSE 0)
         IN
         /\ tasks # <<>> => unsplit_len(Len(tasks)) = tasks[1].len
         /\ \A i \in 1 .. Len(tasks) :
              LET t == tasks[i] IN
              IF t.left # 0
              THEN /\ t.len >= 2
                   /\ tasks[t.left].len = t.len \div 2
                   /\ tasks[t.left].len > 0
                   /\ tasks[t.left].len < t.len
                   /\ tasks[t.right].len = t.len - tasks[t.left].len
                   /\ t.starts = 0 /\ t.produces = 0 /\ t.completes = 0
                   /\ t.pc = "done" =>
                        /\ tasks[t.left].pc = "done"
                        /\ tasks[t.right].pc = "done"
                        /\ t.result = tasks[t.left].result
                                        \o tasks[t.right].result
              ELSE /\ t.starts = (IF t.pc = "start" THEN 0 ELSE 1)
                   /\ t.produces <= t.len
                   /\ Len(t.fed) = t.produces
                   /\ t.completes = (IF t.pc = "done" THEN 1 ELSE 0)
                   /\ t.pc = "done" => /\ t.produces = t.len
                                       /\ t.result = t.fed
         /\ (tasks # <<>> /\ tasks[1].pc = "done") =>
              /\ tasks[1].result = items(root)
              /\ \A i, j \in 1 .. Len(tasks[1].result) :
                   i # j => tasks[1].result[i] # tasks[1].result[j])
  /\ (tasks # <<>>) ~> (tasks # <<>> /\ tasks[1].pc = "done")

\* A bridge over three items that split twice and returned, its halves
\* having run out of order.
C31_Witness ==
  /\ tasks # <<>> /\ tasks[1].pc = "done"
  /\ tasks[1].len = 3
  /\ Len(tasks) = 5
  /\ tasks[1].result # op_calls

\* C32 as stated: if the pipeline panics in the middle of collect_into, then
\* once the vector is gone every slot has been dropped as many times as it
\* was written, and at no time after the panic does the length of the vector
\* cover a slot that was not written.
C32_AsStated ==
  vec.panicked =>
    /\ \A i \in 1 .. vec.len : vec.buf[i].writes # <<>>
    /\ vec.pc = "dropped" =>
         \A i \in 1 .. Len(vec.buf) : vec.drops[i] = Len(vec.buf[i].writes)

\* C33: in every reachable state 0 <= threads_at_work <= N, and
\* threads_at_work is the number of workers that were handed an injected job
\* or have called start_working and have not yet passed the decrement of
\* their next wait_for_work; every worker that runs a job is one of them;
\* and the decrement of wait_for_work is executed only with
\* threads_at_work >= 1.
C33_AtWorkAccounting ==
  /\ [](/\ threads_at_work \in 0 .. NumWorkers
        /\ threads_at_work
             = Cardinality({w \in Workers : stack[w][1].was_active})
        /\ \A w \in Workers : Len(stack[w]) > 1 => stack[w][1].was_active)
  /\ [][\A w \in Workers :
          (wait_for_work(w) /\ Top(w).was_active) => threads_at_work >= 1]_vars

\* Every worker is at work, one on a job it was handed and one on a job it
\* stole.
C33_Witness ==
  /\ threads_at_work = NumWorkers
  /\ \E j \in Jobs : hist[j].handed = 1 /\ hist[j].steals = 0
  /\ \E j \in Jobs : hist[j].steals = 1
  /\ \A w \in Workers : Len(stack[w]) > 1

\* C34: in every reachable state the owner of a non-empty deque is counted
\* in threads_at_work, which is therefore positive; the deque of a worker
\* that is in wait_for_work (about to take the state lock, holding it, or
\* waiting on work_available) is empty; and no worker is blocked on
\* work_available while a job is in a deque.
C34_NoSleepWhilePending ==
  /\ \A w \in Workers :
       deque[w].bottom # NULL_JOB \/ deque[w].top # NULL_JOB =>
         /\ stack[w][1].was_active
         /\ Len(stack[w]) > 1
         /\ threads_at_work > 0
  /\ \A w \in Workers :
       (Len(stack[w]) = 1 /\ Top(w).pc \in {"wfw_lock", "wfw_cs", "cv_wait"}) =>
         deque[w] = [top |-> NULL_JOB, bottom |-> NULL_JOB]
  /\ work_available # {} =>
       \A w \in Workers : deque[w] = [top |-> NULL_JOB, bottom |-> NULL_JOB]

\* A job is in the deque of a worker while the other worker, woken from
\* its wait, is about to look for work.
C34_Witness ==
  \E w, u \in Workers :
    /\ w # u
    /\ deque[w].bottom # NULL_JOB
    /\ At(u, "main_loop", "cv_wait")
    /\ u \notin work_available

\* C35: when the join of a worker is about to pop its job B (it is at the
\* lock of pop or inside pop), B is the top of that worker's deque or is in
\* no deque at all, never below another job; and a pop that returns false
\* finds the worker's own deque empty and leaves it empty.
C35_NestedJoinDiscipline ==
  /\ [](\A w \in Workers :
          Top(w).op = "join" /\ Top(w).pc \in {"pop_lock", "pop_cs"} =>
            \/ deque[w].top = Top(w).job
            \/ InDeque(Top(w).job) = {})
  /\ [][\A w \in Workers :
          (pop_cs(w) /\ ~pop(deque[w], previous, next, Top(w).job).ok) =>
            /\ deque[w] = [top |-> NULL_JOB, bottom |-> NULL_JOB]
            /\ deque'[w] = [top |-> NULL_JOB, bottom |-> NULL_JOB]
            /\ InDeque(Top(w).job) = {}]_vars

\* Inside a nested join the pop of the inner B has failed: both the outer
\* and the inner B were stolen.
C35_Witness ==
  \E w \in Workers :
    /\ At(w, "join", "wait")
    /\ hist[Top(w).job].popped = "false"
    /\ \E i \in 1 .. (Len(stack[w]) - 1) :
         /\ stack[w][i].op = "join"
         /\ hist[stack[w][i].job].steals = 1

\* C36: in every reachable state and for every deque whose lock is free:
\* top is null iff bottom is null; if the deque is not empty, top.next and
\* bottom.previous are null, and following `previous` from the top visits
\* every job of the deque exactly once and ends at the bottom (following
\* `next` from the bottom visits the same jobs in the opposite order); and
\* for jobs x, y of the deque, x.previous = y iff y.next = x.
C36_LinkageConsistency ==
  \A w \in Workers : deque_lock[w] = NoThread =>
    LET down == FromTop(w)
        up == FromBottom(w) IN
    /\ (deque[w].top = NULL_JOB) <=> (deque[w].bottom = NULL_JOB)
    /\ deque[w].top # NULL_JOB =>
         /\ next[deque[w].top] = NULL_JOB
         /\ previous[deque[w].bottom] = NULL_JOB
         /\ down[Len(down)] = deque[w].bottom
         /\ up[Len(up)] = deque[w].top
    /\ Len(down) <= MaxJobs
    /\ Len(up) = Len(down)
    /\ \A i \in 1 .. Len(down) : up[i] = down[Len(down) + 1 - i]
    /\ \A i, k \in 1 .. Len(down) : i # k => down[i] # down[k]
    /\ \A x, y \in Range(down) : previous[x] = y <=> next[y] = x

\* A deque of two jobs, its lock free, in a pool that has handed out an
\* injected job.
C36_Witness ==
  \E w \in Workers :
    /\ deque_lock[w] = NoThread
    /\ Len(FromTop(w)) = 2
    /\ previous[deque[w].top] = deque[w].bottom
    /\ \E j \in Jobs : hist[j].handed = 1

\* C37: inject puts its job behind the jobs injected_jobs already holds, and
\* a wait_for_work that finds injected_jobs non-empty hands out the job at
\* its end, the one injected last, and leaves the others in their order; so
\* a job injected earlier is handed out only after the later ones that were
\* in the list with it.
C37_InjectedLifo ==
  /\ [][\A e \in Threads :
          inject(e) => injected_jobs' = Append(injected_jobs, Top(e).job)]_vars
  /\ [][\A w \in Workers :
          (wait_for_work(w) /\ injected_jobs # <<>>) =>
            LET n == Len(injected_jobs)
                last == injected_jobs[n] IN
            /\ injected_jobs' = SubSeq(injected_jobs, 1, n - 1)
            /\ hist'[last].handed = hist[last].handed + 1
            /\ \A j \in Jobs \ {last} : hist'[j].handed = hist[j].handed
            /\ stack'[w][Len(stack'[w])].job = last]_vars

\* A job was handed out while a job injected before it is still in the
\* list: the jobs of the one outside thread are numbered in the order of
\* their injection.
C37_Witness ==
  \E j \in Jobs :
    /\ Len(injected_jobs) = 1
    /\ hist[j].injects = 1
    /\ hist[j].handed = 1
    /\ hist[injected_jobs[1]].injects = 1
    /\ j > injected_jobs[1]

\* C38: with finitely many joins, each of whose closures returns, and fair
\* scheduling, the pool reaches a state from which on, for ever,
\* injected_jobs and every deque are empty, threads_at_work is 0 and every
\* worker is in its main loop, blocked on work_available inside
\* wait_for_work; and no worker ever leaves main_loop.
C38_Quiescence ==
  /\ <>[](/\ injected_jobs = <<>>
          /\ threads_at_work = 0
          /\ \A w \in Workers :
               /\ deque[w] = [top |-> NULL_JOB, bottom |-> NULL_JOB]
               /\ Len(stack[w]) = 1
               /\ At(w, "main_loop", "cv_wait")
               /\ w \in work_available)
  /\ [](\A w \in Workers :
          /\ Len(stack[w]) >= 1
          /\ stack[w][1].op = "main_loop"
          /\ stack[w][1].pc # "panicked")

\* The pool at rest after it was handed an injected job and a worker stole
\* another one.
C38_Witness ==
  /\ injected_jobs = <<>>
  /\ threads_at_work = 0
  /\ work_available = Workers
  /\ \A w \in Workers : At(w, "main_loop", "cv_wait")
  /\ \E j \in Jobs : hist[j].handed = 1 /\ hist[j].returned
  /\ \E j \in Jobs : hist[j].steals = 1 /\ hist[j].returned

\* C39 as stated: for every window size n >= 1 and every slice of fewer than
\* n elements, the reported length of the windows is 0, there is no window,
\* and split_at(0) on the producer does not fail.
C39_AsStated ==
  /\ (root.kind = "windows" /\ root.slice.len < root.size) =>
       /\ windows_len(root) = 0
       /\ sized_items(root) = <<>>
  /\ (/\ last_split.of.kind = "windows"
      /\ last_split.of.slice.len < last_split.of.size
      /\ last_split.index = 0) => ~last_split.panicked


====
